---- MODULE Spec2Model ----
(***************************************************************************)
(* Model of the selfhood-api content pipeline:                             *)
(*   - WebflowFetcher (src/src/lib/webflow-fetcher.ts): processPage, the   *)
(*     recursive component resolver with its cache, extractContent and the *)
(*     transformers;                                                       *)
(*   - the refresh route (src/src/app/api/update-blob/route.ts): blob      *)
(*     upload followed by the upsert of the latestContextUrl pointer.      *)
(*                                                                         *)
(* Strings are sequences of tokens.  A token is one character, or one HTML *)
(* tag / URL scheme taken as a unit ("<p>", "http://").                    *)
(***************************************************************************)
EXTENDS Integers, Sequences, FiniteSets, TLC

VARIABLES
    \* ---- the JavaScript heap of WebflowNode objects (all specifications)
    heap,          \* object id -> [type, componentId, children, html, text]
    \* ---- extractContent, one traversal step at a time (SpecExtract)
    exPc,          \* "off" | "traversing" | "done"
    exTodo,        \* nodes still to visit, in depth-first pre-order
    exTrace,       \* history: the nodes visited so far, in visit order
    pages,         \* Record<string, PageContent> of the running extraction
    currentPage,   \* the closure variable currentPage (string | null)
    \* ---- processPage and the component resolver (Spec)
    scen,          \* what the CMS serves and which route calls the fetcher
    inv,           \* number of processPage invocations started so far
    ppPc,          \* "idle" | "top" | "resolving" | "done" | "failed" | "hung"
    topData,       \* the three top-level fetches: "none" | "pending" | "ok" | "failed"
    cache,         \* componentCache: componentId -> cached definition nodes
    tasks,         \* suspended processNode calls (awaiting a fetch or a join)
    nextId,        \* next task id
    ppResult,      \* the FetchResult returned by processPage
    ppError,       \* the error processPage was rejected with
    orig,          \* history: every heap object as it was allocated
    copies,        \* history: the definition copies the fetches returned
    docRoots,      \* history: the nodes array of the document tree
    processed,     \* processedNodes of processPage
    fetchCount,    \* history: fetches issued per componentId, this invocation
    failedEps,     \* history: endpoints whose fetch failed, this invocation
    served,        \* history: <<invocation that cached, invocation served>>
    lateFill,      \* history: a join slot was filled before an earlier one
    \* ---- the refresh route and the readers of the pointer (SpecRefresh)
    cmsVersion,    \* version of the content the CMS serves
    hasToken,      \* process.env.VERCEL_API_TOKEN is set
    rfPc,          \* per refresh request: where its POST handler is
    rfData,        \* per refresh request: fetchedData (as a CMS version)
    rfStatus,      \* per refresh request: status of its response (0: none)
    rfBody,        \* per refresh request: body of its response
    rfSteps,       \* history: per refresh request, the awaits that succeeded
    blobs,         \* blob store: url -> content
    pointer,       \* Edge Config item latestContextUrl
    pointerBy,     \* history: the refresh request that stored pointer
    cmsReads,      \* history: processPage calls made (they query the CMS)
    rdPc,          \* the chat handler: where its POST handler is
    rdUrl,         \* the chat handler: latestContextUrl as it read it
    rdCtx,         \* the chat handler: contextData it got last
    rdStatus,      \* the chat handler: status of its response (0: none)
    rdLlm,         \* history: generateObject calls made for this request
    rdResponses,   \* history: responses returned for this request
    rdError,       \* the chat handler: message of the error it caught
    rdReq,         \* the chat handler: number of the request it handles
    \* ---- one function of the pipeline called on its own (SpecPure)
    pfFn,          \* the function called
    pfIn,          \* its argument
    pfOut,         \* what the last call returned
    pfPrev,        \* what the call before the last returned
    pfN,           \* number of calls made
    \* ---- the Edge Config cache variants of the routes (SpecCache)
    ccEnv,         \* process.env.EDGE_CONFIG is set
    ccKind,        \* per request: "webhook" | "chat"
    ccPc,          \* per request: where its POST handler is
    ccData,        \* per request: newData / contextData
    ccStatus,      \* per request: status of its response (0: none)
    ccFailed,      \* history: per request, a CMS fetch of its processPage failed
    ccStore,       \* Edge Config item webflow_page_<pageId>
    \* ---- the in-memory cache variant, lib/webflow.ts (SpecMemo)
    wfCached,      \* cachedData
    wfNow,         \* history: a clock, one tick per call and per invalidation
    wfInvalidated, \* history: the time of the last invalidateWebflowCache()
    wfPc,          \* per fetchWebflowData call: where it is
    wfStarted,     \* history: per call, the time it was made
    wfIssued,      \* history: per call, the time it issued its CMS requests
    wfResult       \* per call: the data it returned

extractVars == <<exPc, exTodo, exTrace, pages, currentPage>>

mainVars == <<scen, inv, ppPc, topData, cache, tasks, nextId, ppResult,
              ppError, orig, copies, docRoots, processed, fetchCount,
              failedEps, served, lateFill>>

readerVars == <<rdPc, rdUrl, rdCtx, rdStatus, rdLlm, rdResponses, rdError,
                rdReq>>

refreshVars == <<cmsVersion, hasToken, rfPc, rfData, rfStatus, rfBody,
                 rfSteps, blobs, pointer, pointerBy, cmsReads, readerVars>>

pureVars == <<pfFn, pfIn, pfOut, pfPrev, pfN>>

cacheVars == <<ccEnv, ccKind, ccPc, ccData, ccStatus, ccFailed, ccStore>>

memoVars == <<wfCached, wfNow, wfInvalidated, wfPc, wfStarted, wfIssued,
              wfResult>>

variantVars == <<cacheVars, memoVars>>

vars == <<heap, extractVars, mainVars, refreshVars, pureVars, variantVars>>

\* ------------------------------------------------------------------------
\* Bounds
\* ------------------------------------------------------------------------
MaxTop == 2
MaxKids == 2
MaxInvocations == 2
MaxHitDepth == 3
MaxRefreshes == 2
MaxCmsVersion == 1
MaxTaskId == 16
MaxTitleLen == 3
MaxItems == 2
MaxHtmlLen == 4
MaxContentLen == 4
MaxChats == 2
MaxCacheRequests == 2
MaxMemoCalls == 3

\* ------------------------------------------------------------------------
\* Strings
\* ------------------------------------------------------------------------
Whitespace == {" ", "\n"}

LowerLetters ==
    {"a","b","c","d","e","f","g","h","i","j","k","l","m",
     "n","o","p","q","r","s","t","u","v","w","x","y","z"}

Digits == {"0","1","2","3","4","5","6","7","8","9"}

TitleTag == "<div class=\"page-title\">"

Tags == {TitleTag, "</div>", "<p>", "</p>"}

WfLeftover == "[__wf_reserved_inherit](https://cdn.prod.website-files.com/x)"

\* String.prototype.toLowerCase, one character
LowerChar(c) ==
    CASE c = "A" -> "a" [] c = "B" -> "b" [] c = "C" -> "c" [] c = "D" -> "d"
      [] c = "E" -> "e" [] c = "H" -> "h" [] c = "I" -> "i" [] c = "L" -> "l"
      [] c = "M" -> "m" [] c = "N" -> "n" [] c = "S" -> "s" [] c = "W" -> "w"
      [] c = "X" -> "x" [] OTHER -> c

ToLowerCase(s) == [i \in 1..Len(s) |-> LowerChar(s[i])]

RECURSIVE TrimStart(_)
TrimStart(s) ==
    IF s # <<>> /\ Head(s) \in Whitespace THEN TrimStart(Tail(s)) ELSE s

RECURSIVE TrimEnd(_)
TrimEnd(s) ==
    IF s # <<>> /\ s[Len(s)] \in Whitespace
    THEN TrimEnd(SubSeq(s, 1, Len(s) - 1)) ELSE s

\* String.prototype.trim
Trim(s) == TrimEnd(TrimStart(s))

\* s.replace(/X/g, "") for a set X of single tokens
RECURSIVE RemoveAll(_, _)
RemoveAll(s, X) ==
    IF s = <<>> THEN <<>>
    ELSE IF Head(s) \in X THEN RemoveAll(Tail(s), X)
    ELSE <<Head(s)>> \o RemoveAll(Tail(s), X)

\* the rest of s after its leading run of tokens of C
RECURSIVE DropRun(_, _)
DropRun(s, C) ==
    IF s # <<>> /\ Head(s) \in C THEN DropRun(Tail(s), C) ELSE s

\* a replacement of every single token of C by r
ReplaceEach(s, C, r) ==
    [i \in 1..Len(s) |-> IF s[i] \in C THEN r ELSE s[i]]

\* s.replace(/[C]+/g, r): every maximal run of tokens of C becomes one r
RECURSIVE ReplaceRuns(_, _, _)
ReplaceRuns(s, C, r) ==
    IF s = <<>> THEN <<>>
    ELSE IF Head(s) \in C
         THEN <<r>> \o ReplaceRuns(DropRun(Tail(s), C), C, r)
         ELSE <<Head(s)>> \o ReplaceRuns(Tail(s), C, r)

TokensOf(s) == {s[i] : i \in 1..Len(s)}

IsPrefix(s, t) == Len(s) <= Len(t) /\ SubSeq(t, 1, Len(s)) = s

\* ------------------------------------------------------------------------
\* createSlug
\* ------------------------------------------------------------------------
\* .replace(/^-|-$/g, "")
StripEdgeHyphens(s) ==
    LET a == IF s # <<>> /\ Head(s) = "-" THEN Tail(s) ELSE s
    IN  IF a # <<>> /\ a[Len(a)] = "-" THEN SubSeq(a, 1, Len(a) - 1) ELSE a

createSlug(title) ==
    LET lowerTitle == ToLowerCase(title)
    IN  IF lowerTitle = <<"i","n","d","e","x">> THEN <<"/","i","n">>
        ELSE <<"/">> \o
             StripEdgeHyphens(
                 ReplaceRuns(lowerTitle,
                             TokensOf(lowerTitle) \ (LowerLetters \cup Digits),
                             "-"))

\* ------------------------------------------------------------------------
\* standardizeContent
\* ------------------------------------------------------------------------
\* index of the last "\n" of the whitespace run that starts s, 0 if none
RECURSIVE LastNewlineInRun(_, _, _)
LastNewlineInRun(s, i, best) ==
    IF i > Len(s) \/ s[i] \notin Whitespace THEN best
    ELSE LastNewlineInRun(s, i + 1, IF s[i] = "\n" THEN i ELSE best)

\* .replace(/\n\s*\n/g, "\n")
RECURSIVE CollapseNewlines(_)
CollapseNewlines(s) ==
    IF s = <<>> THEN <<>>
    ELSE IF Head(s) = "\n" /\ LastNewlineInRun(Tail(s), 1, 0) > 0
         THEN <<"\n">> \o
              CollapseNewlines(SubSeq(Tail(s),
                                      LastNewlineInRun(Tail(s), 1, 0) + 1,
                                      Len(Tail(s))))
         ELSE <<Head(s)>> \o CollapseNewlines(Tail(s))

\* index of the first ")" of s at or after i, 0 if none
RECURSIVE FirstClose(_, _)
FirstClose(s, i) ==
    IF i > Len(s) THEN 0
    ELSE IF s[i] = ")" THEN i ELSE FirstClose(s, i + 1)

\* .replace(/\(https?:\/\/[^\)]+\)/g, "")
RECURSIVE RemoveUrls(_)
RemoveUrls(s) ==
    IF s = <<>> THEN <<>>
    ELSE IF /\ Head(s) = "("
            /\ Len(s) >= 4
            /\ s[2] \in {"http://", "https://"}
            /\ s[3] # ")"
            /\ FirstClose(s, 4) > 0
         THEN RemoveUrls(SubSeq(s, FirstClose(s, 4) + 1, Len(s)))
         ELSE <<Head(s)>> \o RemoveUrls(Tail(s))

standardizeContent(content) ==
    RemoveUrls(
        RemoveAll(
            Trim(CollapseNewlines(ReplaceRuns(content, Whitespace, " "))),
            {"[", "]", "*", "_"}))

\* sanitizeContent: drops the Webflow "[__wf_reserved_inherit](...)" links
sanitizeContent(content) == RemoveAll(content, {WfLeftover})

\* turndownService.turndown, as far as the pipeline depends on it: the tags
\* are dropped and the text is trimmed
turndown(html) == Trim(RemoveAll(html, Tags))

\* ------------------------------------------------------------------------
\* convertHtmlToMarkdown (chat route)
\*
\* Here a string is a sequence of the characters "<", ">", "/", "&", ";",
\* " ", "\n" and of words ("script", "style", "figure", "nbsp", "x").
\* ------------------------------------------------------------------------
WordTokens == {"script", "style", "figure", "nbsp", "x"}

\* index of the first occurrence of pat in s that starts at or after i, 0 if
\* there is none
RECURSIVE FirstAt(_, _, _)
FirstAt(s, pat, i) ==
    IF i + Len(pat) - 1 > Len(s) THEN 0
    ELSE IF SubSeq(s, i, i + Len(pat) - 1) = pat THEN i
    ELSE FirstAt(s, pat, i + 1)

\* .replace(/<w\b[^<]*(?:(?!<\/w>)<[^<]*)*<\/w>/gi, ""): from "<w" at a word
\* boundary to the first "</w>" that follows
RECURSIVE RemoveBlocks(_, _)
RemoveBlocks(s, w) ==
    LET close == FirstAt(s, <<"<", "/", w, ">">>, 3)
    IN  IF s = <<>> THEN <<>>
        ELSE IF /\ Len(s) >= 2
                /\ s[1] = "<"
                /\ s[2] = w
                /\ (Len(s) = 2 \/ s[3] \notin WordTokens)
                /\ close > 0
             THEN RemoveBlocks(SubSeq(s, close + 4, Len(s)), w)
             ELSE <<Head(s)>> \o RemoveBlocks(Tail(s), w)

\* a replacement that removes the first tag only
StripTagsOnce(s) ==
    LET open == CHOOSE i \in 0..Len(s) :
                    /\ i > 0 => /\ s[i] = "<"
                                /\ i + 1 <= Len(s)
                                /\ s[i + 1] # ">"
                                /\ FirstAt(s, <<">">>, i + 2) > 0
                    /\ \A j \in 1..(IF i = 0 THEN Len(s) ELSE i - 1) :
                          ~(/\ s[j] = "<"
                            /\ j + 1 <= Len(s)
                            /\ s[j + 1] # ">"
                            /\ FirstAt(s, <<">">>, j + 2) > 0)
    IN  IF open = 0 THEN s
        ELSE SubSeq(s, 1, open - 1)
             \o SubSeq(s, FirstAt(s, <<">">>, open + 2) + 1, Len(s))

\* .replace(/<[^>]+>/g, "")
RECURSIVE StripTags(_)
StripTags(s) ==
    IF s = <<>> THEN <<>>
    ELSE IF /\ Head(s) = "<"
            /\ Len(s) >= 3
            /\ s[2] # ">"
            /\ FirstAt(s, <<">">>, 3) > 0
         THEN StripTags(SubSeq(s, FirstAt(s, <<">">>, 3) + 1, Len(s)))
         ELSE <<Head(s)>> \o StripTags(Tail(s))

\* .replace(/&nbsp;/g, " ")
RECURSIVE ReplaceNbsp(_)
ReplaceNbsp(s) ==
    IF s = <<>> THEN <<>>
    ELSE IF Len(s) >= 3 /\ SubSeq(s, 1, 3) = <<"&", "nbsp", ";">>
         THEN <<" ">> \o ReplaceNbsp(SubSeq(s, 4, Len(s)))
         ELSE <<Head(s)>> \o ReplaceNbsp(Tail(s))

convertHtmlToMarkdown(html) ==
    Trim(
        ReplaceRuns(
            ReplaceNbsp(
                StripTags(
                    RemoveBlocks(
                        RemoveBlocks(RemoveBlocks(html, "script"), "style"),
                        "figure"))),
            Whitespace, " "))

\* ------------------------------------------------------------------------
\* WebflowNode objects
\* ------------------------------------------------------------------------
TextNode(html, text) ==
    [type |-> "text", componentId |-> "", children |-> <<>>,
     html |-> html, text |-> text]

BlockNode ==
    [type |-> "block", componentId |-> "", children |-> <<>>,
     html |-> <<>>, text |-> <<>>]

InstanceNode(c) ==
    [type |-> "component-instance", componentId |-> c, children |-> <<>>,
     html |-> <<>>, text |-> <<>>]

\* node.text.html.includes('class="page-title"')
IsPageTitle(html) == TitleTag \in TokensOf(html)

\* ------------------------------------------------------------------------
\* extractContent
\* ------------------------------------------------------------------------
NullPage == [isNull |-> TRUE, title |-> <<>>]

PageOf(t) == [isNull |-> FALSE, title |-> t]

\* JavaScript truthiness of currentPage: null and "" are falsy
Truthy(cur) == ~cur.isNull /\ cur.title # <<>>

NoPages == [t \in {} |-> 0]

\* pages[key] = value
PutPage(pgs, key, value) ==
    [t \in DOMAIN pgs \cup {key} |-> IF t = key THEN value ELSE pgs[t]]

\* the key that names the prototype accessor of an object literal
ProtoKey == <<"__proto__">>

\* pages[key] = value, pages being the object literal {}: the assignment of
\* an object to pages["__proto__"] sets the prototype of pages and adds no
\* own property
AssignPage(pgs, key, value) ==
    IF key = ProtoKey THEN pgs ELSE PutPage(pgs, key, value)

\* the body of traverse for one node, before the recursion into its children
VisitNode(node, st) ==
    IF node.type = "text" /\ node.html # <<>>
    THEN IF IsPageTitle(node.html)
         THEN LET title == Trim(node.text)
              IN  [pages |-> AssignPage(st.pages, title,
                                        [title |-> title,
                                         slug |-> createSlug(title),
                                         content |-> <<>>]),
                   cur |-> PageOf(title)]
         ELSE IF Truthy(st.cur) /\ st.cur.title = ProtoKey
         THEN \* pages["__proto__"].content += ... changes the prototype
              st
         ELSE IF Truthy(st.cur)
         THEN LET old == st.pages[st.cur.title]
                  add == sanitizeContent(turndown(node.html)) \o <<"\n">>
              IN  [pages |-> PutPage(st.pages, st.cur.title,
                                     [old EXCEPT !.content = @ \o add]),
                   cur |-> st.cur]
         ELSE st
    ELSE st

\* the final pass: page.content = standardizeContent(page.content)
StandardizePages(pgs) ==
    [t \in DOMAIN pgs |->
        [pgs[t] EXCEPT !.content = standardizeContent(@)]]

\* traverse over the worklist todo (depth-first, pre-order)
RECURSIVE TraverseAll(_, _, _)
TraverseAll(h, todo, st) ==
    IF todo = <<>> THEN st
    ELSE TraverseAll(h, h[Head(todo)].children \o Tail(todo),
                     VisitNode(h[Head(todo)], st))

extractContent(h, nodes) ==
    StandardizePages(
        TraverseAll(h, nodes, [pages |-> NoPages, cur |-> NullPage]).pages)

\* ------------------------------------------------------------------------
\* SpecExtract: extractContent on bounded node trees, one visit per step
\* ------------------------------------------------------------------------
TitleA == TextNode(<<TitleTag, "A", "</div>">>, <<" ", "A">>)
TitleB == TextNode(<<TitleTag, "B", "</div>">>, <<"B">>)
TitleEmpty == TextNode(<<TitleTag, " ", "</div>">>, <<" ">>)
TextX == TextNode(<<"<p>", "x", "</p>">>, <<"x">>)
TextY == TextNode(<<"<p>", "y", "</p>">>, <<"y">>)
TitleProto == TextNode(<<TitleTag, "__proto__", "</div>">>, <<"__proto__">>)
TitleHome ==
    TextNode(<<TitleTag, "H", "o", "m", "e", "</div>">>, <<"H", "o", "m", "e">>)
TextWelcome ==
    TextNode(<<"<p>", "W", "e", "l", "c", "o", "m", "e", "</p>">>,
             <<"W", "e", "l", "c", "o", "m", "e">>)

Leaves == {TitleA, TitleB, TitleEmpty, TextX, TextY}

SeqUpTo(S, n) == UNION {[1..k -> S] : k \in 0..n}

\* a top-level node: a leaf, or a block or a title marker with children
Items ==
    {[node |-> l, kids |-> <<>>] : l \in Leaves \cup {TitleProto}}
    \cup {[node |-> n, kids |-> k] :
            n \in {BlockNode, TitleA}, k \in SeqUpTo(Leaves, MaxKids) \ {<<>>}}

RECURSIVE KidsBefore(_, _)
KidsBefore(items, i) ==
    IF i <= 1 THEN 0
    ELSE KidsBefore(items, i - 1) + Len(items[i - 1].kids)

\* the heap holding the tree: the top-level nodes first, then their children
RECURSIVE AllKids(_)
AllKids(items) ==
    IF items = <<>> THEN <<>> ELSE Head(items).kids \o AllKids(Tail(items))

\* the tree of marker "Home" followed by the text node "<p>Welcome</p>"
HomeItems ==
    <<[node |-> TitleHome, kids |-> <<>>], [node |-> TextWelcome, kids |-> <<>>]>>

BuildHeap(items) ==
    LET k == Len(items)
    IN  [i \in 1..k |->
            [items[i].node EXCEPT
                !.children = [j \in 1..Len(items[i].kids) |->
                                 k + KidsBefore(items, i) + j]]]
        \o AllKids(items)

TraverseStep ==
    /\ exPc = "traversing"
    /\ exTodo # <<>>
    /\ LET n == Head(exTodo)
           st == VisitNode(heap[n], [pages |-> pages, cur |-> currentPage])
       IN  /\ pages' = st.pages
           /\ currentPage' = st.cur
           /\ exTrace' = Append(exTrace, n)
           /\ exTodo' = heap[n].children \o Tail(exTodo)
    /\ UNCHANGED <<heap, exPc, mainVars, refreshVars, pureVars, variantVars>>

StandardizeStep ==
    /\ exPc = "traversing"
    /\ exTodo = <<>>
    /\ pages' = StandardizePages(pages)
    /\ exPc' = "done"
    /\ UNCHANGED <<heap, exTodo, exTrace, currentPage, mainVars, refreshVars,
                   pureVars, variantVars>>

NextExtract == TraverseStep \/ StandardizeStep

ExtractOff ==
    /\ exPc = "off"
    /\ exTodo = <<>>
    /\ exTrace = <<>>
    /\ pages = NoPages
    /\ currentPage = NullPage

\* ------------------------------------------------------------------------
\* What the CMS serves
\* ------------------------------------------------------------------------
CompIds == {"A", "B", "C", "L", "M", "N"}

\* a node tree laid out flat: children and roots are positions in nodes
Template(nodes, roots) == [nodes |-> nodes, roots |-> roots]

WithChildren(node, kids) == [node EXCEPT !.children = kids]

\* component definitions: A embeds B, C embeds A, L embeds itself, M and N
\* embed each other
ComponentDefs ==
    [c \in CompIds |->
        CASE c = "A" -> Template(<<TitleA, InstanceNode("B")>>, <<1, 2>>)
          [] c = "B" -> Template(<<TextX>>, <<1>>)
          [] c = "C" -> Template(<<InstanceNode("A")>>, <<1>>)
          [] c = "L" -> Template(<<InstanceNode("L")>>, <<1>>)
          [] c = "M" -> Template(<<InstanceNode("N")>>, <<1>>)
          [] c = "N" -> Template(<<InstanceNode("M")>>, <<1>>)]

\* the components whose definition embeds, directly or through other
\* definitions, an instance of itself
CyclicComps == {"L", "M", "N"}

\* document trees
Docs ==
    [d \in {"siblings", "nested", "shared", "plain", "cycle", "cycle2"} |->
        CASE d = "siblings" ->
                Template(<<InstanceNode("A"), InstanceNode("A")>>, <<1, 2>>)
          [] d = "nested" ->
                Template(<<TitleB, WithChildren(BlockNode, <<4, 5>>),
                           InstanceNode("A"), InstanceNode("B"), TextY>>,
                         <<1, 2, 3>>)
          [] d = "plain" ->
                Template(<<TitleA, TextX>>, <<1, 2>>)
          [] d = "shared" ->
                Template(<<InstanceNode("A"), InstanceNode("C")>>, <<1, 2>>)
          [] d = "cycle" ->
                Template(<<InstanceNode("L")>>, <<1>>)
          [] d = "cycle2" ->
                Template(<<TitleB, InstanceNode("M")>>, <<1, 2>>)]

\* the documents whose tree reaches a component of CyclicComps
CyclicDocs == {"cycle", "cycle2"}

\* the document-tree response is {nodes: N} or the bare array N
Shapes == {"wrapped", "bare"}

\* update-blob/route.ts builds a WebflowFetcher per request; the chat route
\* variant keeps one at module level
Routes == {"perRequest", "moduleLevel"}

\* JavaScript values of an optional string field
Undefined == [tag |-> "undefined", s |-> <<>>]
Null == [tag |-> "null", s |-> <<>>]
Str(s) == [tag |-> "string", s |-> s]

CmsCaseStudies ==
    <<[name |-> <<"L", "a", " ">>, slug |-> <<"l", "a">>,
       content |-> Str(<<"<p>", "x", "</p>">>)],
      [name |-> <<"l", "a">>, slug |-> <<"l", "b">>, content |-> Undefined]>>

CmsSystemPrompt ==
    [hasFieldData |-> TRUE, style |-> Str(<<"s">>), patterns |-> Undefined]

\* ------------------------------------------------------------------------
\* Transformers
\* ------------------------------------------------------------------------
\* item.fieldData.content || ""
OrEmpty(v) == IF v.tag = "string" THEN v.s ELSE <<>>

CaseStudyEntry(item) ==
    [key |-> ToLowerCase(Trim(item.name)),
     value |-> [title |-> Trim(item.name),
                slug |-> <<"/casestudies/">> \o item.slug,
                content |-> sanitizeContent(turndown(OrEmpty(item.content)))]]

\* a map built from the entries in which the first entry of a key is kept
RECURSIVE FromEntriesFirst(_, _)
FromEntriesFirst(entries, acc) ==
    IF entries = <<>> THEN acc
    ELSE FromEntriesFirst(Tail(entries),
                          IF Head(entries).key \in DOMAIN acc THEN acc
                          ELSE PutPage(acc, Head(entries).key,
                                       Head(entries).value))

\* Object.fromEntries: a later entry replaces an earlier one with its key
RECURSIVE FromEntries(_, _)
FromEntries(entries, acc) ==
    IF entries = <<>> THEN acc
    ELSE FromEntries(Tail(entries),
                     PutPage(acc, Head(entries).key, Head(entries).value))

transformCaseStudies(items) ==
    FromEntries([i \in 1..Len(items) |-> CaseStudyEntry(items[i])], NoPages)

\* a destructuring default applies to undefined only
DefaultEmpty(v) == IF v.tag = "undefined" THEN Str(<<>>) ELSE v

\* threw: destructuring fieldData of an item without fieldData is a TypeError
transformSystemPrompt(data) ==
    IF ~data.hasFieldData
    THEN [threw |-> TRUE, styleGuidelines |-> Undefined,
          questionPatterns |-> Undefined]
    ELSE [threw |-> FALSE,
          styleGuidelines |-> DefaultEmpty(data.style),
          questionPatterns |-> DefaultEmpty(data.patterns)]

\* ------------------------------------------------------------------------
\* fetchData
\* ------------------------------------------------------------------------
TopKeys == {"dom", "caseStudies", "systemPrompt"}

TopEndpoint(k) == <<"top", k>>

ComponentEndpoint(c) == <<"components", c>>

\* how a request ends: data, an axios error, or another thrown value
Outcomes == {"ok", "axios", "other"}

\* error.message of what the HTTP call threw: an AxiosError (non-2xx status,
\* transport error) or another value
UnderlyingMessage(outcome) ==
    IF outcome = "axios" THEN "axios message" ELSE "other message"

\* throw new Error(`Failed to fetch ${endpoint}: ${errorMsg}`)
FetchError(endpoint, outcome) ==
    [endpoint |-> endpoint,
     msg |-> IF outcome = "axios" THEN "axios message" ELSE "Unknown error"]

NoEndpoint == <<"none", "">>

\* nodes.map on undefined
TypeError == [endpoint |-> NoEndpoint, msg |-> "TypeError"]

NoError == [endpoint |-> NoEndpoint, msg |-> ""]

NoResult ==
    [returned |-> FALSE, pages |-> NoPages, caseStudies |-> NoPages,
     systemPrompt |-> [styleGuidelines |-> Undefined,
                       questionPatterns |-> Undefined]]

\* ------------------------------------------------------------------------
\* The heap
\* ------------------------------------------------------------------------
Put(f, k, v) == [x \in DOMAIN f \cup {k} |-> IF x = k THEN v ELSE f[x]]

Drop(f, k) == [x \in DOMAIN f \ {k} |-> f[x]]

Shift(ids, base) == [i \in 1..Len(ids) |-> ids[i] + base]

\* the objects a response with tree tpl adds to heap h (JSON parsing makes
\* new objects for every response)
Instantiate(tpl, base) ==
    [i \in 1..Len(tpl.nodes) |->
        [tpl.nodes[i] EXCEPT !.children = Shift(@, base)]]

\* ------------------------------------------------------------------------
\* recursivelyFetchComponents / processNode / getComponentDefinition
\*
\* Everything that runs between two network responses runs without
\* interleaving (one macrotask and the microtasks it queues), so a response
\* is one step: the machine state m is threaded through the synchronous
\* parts of the calls it resumes and starts.
\* ------------------------------------------------------------------------
AllFilled(results) == \A i \in 1..Len(results) : results[i] # 0

\* a join that collects the results in their order of completion
PlaceResultByArrival(results, idx, n) ==
    LET free == CHOOSE i \in 1..Len(results) :
                    /\ results[i] = 0
                    /\ \A j \in 1..(i - 1) : results[j] # 0
    IN  [results EXCEPT ![free] = n]

\* Promise.all keeps every result at the position of its promise
PlaceResult(results, idx, n) == [results EXCEPT ![idx] = n]

EarlierPending(results, idx) == \E j \in 1..(idx - 1) : results[j] = 0

NewTask(m, rec) ==
    [m EXCEPT !.tasks = Put(@, m.next, rec), !.next = @ + 1]

\* a resolver that fills the children of the first instance of a component
\* only
FinishJoinOnce(m, t) ==
    LET tk == m.tasks[t]
        filled == tk.node # 0 /\
                  \E n \in DOMAIN m.heap :
                      /\ n # tk.node
                      /\ m.heap[n].type = "component-instance"
                      /\ m.heap[tk.node].type = "component-instance"
                      /\ m.heap[n].componentId = m.heap[tk.node].componentId
                      /\ m.heap[n].children # <<>>
    IN  [m EXCEPT
            !.heap = IF tk.node = 0 \/ filled THEN @
                     ELSE [@ EXCEPT ![tk.node].children = tk.results],
            !.processed = IF tk.node = 0 THEN tk.results ELSE @,
            !.rootDone = IF tk.node = 0 THEN TRUE ELSE @,
            !.tasks = Drop(@, t)]

\* the continuation after `await Promise.all(...)`: node.children = result
FinishJoin(m, t) ==
    LET tk == m.tasks[t]
    IN  [m EXCEPT
            !.heap = IF tk.node = 0 THEN @
                     ELSE [@ EXCEPT ![tk.node].children = tk.results],
            !.processed = IF tk.node = 0 THEN tk.results ELSE @,
            !.rootDone = IF tk.node = 0 THEN TRUE ELSE @,
            !.tasks = Drop(@, t)]

\* componentCache.has(componentId)
CacheHas(c, componentId) == componentId \in DOMAIN c

RECURSIVE ProcessNode(_, _, _, _, _)
RECURSIVE ProcessList(_, _, _, _, _, _)
RECURSIVE ProcessFrom(_, _, _, _, _)

\* a resolver whose cache cuts the recursion: an instance of a component
\* that is in the cache is returned as it is
ProcessNodeCut(m, n, parent, idx, fuel) ==
    LET node == m.heap[n]
        c == node.componentId
    IN  IF node.type = "component-instance" /\ c # ""
        THEN IF CacheHas(m.cache, c)
             THEN [m |-> m, done |-> TRUE]
             ELSE [m |-> NewTask(
                            [m EXCEPT !.fetchCount[c] = @ + 1],
                            [node |-> n, parent |-> parent, idx |-> idx,
                             pc |-> "fetch", comp |-> c, results |-> <<>>]),
                   done |-> FALSE]
        ELSE IF node.children # <<>>
        THEN ProcessList(m, node.children, n, parent, idx, fuel)
        ELSE [m |-> m, done |-> TRUE]

\* processNode(node), up to the point where it returns or waits for a fetch
ProcessNode(m, n, parent, idx, fuel) ==
    LET node == m.heap[n]
        c == node.componentId
    IN  IF node.type = "component-instance" /\ c # ""
        THEN IF CacheHas(m.cache, c)
             THEN IF fuel = 0
                  THEN [m |-> [m EXCEPT !.hung = TRUE], done |-> FALSE]
                  ELSE ProcessList(
                           [m EXCEPT !.served =
                                @ \cup {<<m.cache[c].inv, m.inv>>}],
                           m.cache[c].nodes, n, parent, idx, fuel - 1)
             ELSE [m |-> NewTask(
                            [m EXCEPT !.fetchCount[c] = @ + 1],
                            [node |-> n, parent |-> parent, idx |-> idx,
                             pc |-> "fetch", comp |-> c, results |-> <<>>]),
                   done |-> FALSE]
        ELSE IF node.children # <<>>
        THEN ProcessList(m, node.children, n, parent, idx, fuel)
        ELSE [m |-> m, done |-> TRUE]

\* node.children = await Promise.all(nodes.map(processNode)); return node
\* (node 0: the call made by processPage, whose result is processedNodes)
ProcessList(m, nodes, n, parent, idx, fuel) ==
    LET t == m.next
        m1 == NewTask(m, [node |-> n, parent |-> parent, idx |-> idx,
                          pc |-> "join", comp |-> "",
                          results |-> [i \in 1..Len(nodes) |-> 0]])
        m2 == ProcessFrom(m1, nodes, 1, t, fuel)
    IN  IF m2.hung THEN [m |-> m2, done |-> FALSE]
        ELSE IF AllFilled(m2.tasks[t].results)
        THEN [m |-> FinishJoin(m2, t), done |-> TRUE]
        ELSE [m |-> m2, done |-> FALSE]

\* nodes.map(processNode), from position i on
ProcessFrom(m, nodes, i, t, fuel) ==
    IF i > Len(nodes) \/ m.hung THEN m
    ELSE LET r == ProcessNode(m, nodes[i], t, i, fuel)
             m1 == IF r.done
                   THEN [r.m EXCEPT !.tasks[t].results =
                                        PlaceResult(@, i, nodes[i])]
                   ELSE r.m
         IN  ProcessFrom(m1, nodes, i + 1, t, fuel)

\* a join that never learns that one of its promises was fulfilled
CompleteLost(m, p, idx, n) == m

\* the processNode call at position idx of join p has returned node n
RECURSIVE Complete(_, _, _, _)
Complete(m, p, idx, n) ==
    IF p \notin DOMAIN m.tasks THEN m
    ELSE LET tk == m.tasks[p]
             m1 == [m EXCEPT
                       !.tasks[p].results = PlaceResult(@, idx, n),
                       !.lateFill = @ \/ EarlierPending(tk.results, idx)]
         IN  IF AllFilled(m1.tasks[p].results)
             THEN Complete(FinishJoin(m1, p), tk.parent, tk.idx, tk.node)
             ELSE m1

\* a resolver that swallows the error of a failed component fetch
RejectSwallowed(m, p) == m

\* a rejection leaves every awaiting caller up to processPage: their
\* continuations never run, their other children keep running
RECURSIVE Reject(_, _)
Reject(m, p) ==
    IF p \notin DOMAIN m.tasks THEN m
    ELSE Reject([m EXCEPT !.tasks = Drop(@, p),
                          !.rootRejected = @ \/ m.tasks[p].node = 0],
                m.tasks[p].parent)

\* ------------------------------------------------------------------------
\* processPage, called by a route
\* ------------------------------------------------------------------------
NoTasks == [t \in {} |-> 0]

NoCache == [c \in {} |-> 0]

\* the machine state the resolver operators work on
Machine ==
    [heap |-> heap, tasks |-> tasks, cache |-> cache, next |-> nextId,
     inv |-> inv, fetchCount |-> fetchCount, served |-> served,
     lateFill |-> lateFill, processed |-> processed,
     rootDone |-> FALSE, rootRejected |-> FALSE, hung |-> FALSE]

\* the return statement of processPage
AssembleResult(h, nodes) ==
    LET sp == transformSystemPrompt(CmsSystemPrompt)
    IN  [returned |-> TRUE,
         pages |-> extractContent(h, nodes),
         caseStudies |-> transformCaseStudies(CmsCaseStudies),
         systemPrompt |-> [styleGuidelines |-> sp.styleGuidelines,
                           questionPatterns |-> sp.questionPatterns]]

\* the state after the step that produced machine state m; err is the error
\* of the rejection this step raised, if it raised one
Commit(m, err) ==
    /\ heap' = m.heap
    /\ tasks' = m.tasks
    /\ cache' = m.cache
    /\ nextId' = m.next
    /\ fetchCount' = m.fetchCount
    /\ served' = m.served
    /\ lateFill' = m.lateFill
    /\ processed' = m.processed
    /\ IF m.hung
       THEN /\ ppPc' = "hung"
            /\ UNCHANGED <<ppResult, ppError>>
       ELSE IF m.rootDone /\ ppPc \in {"top", "resolving"}
       THEN IF transformSystemPrompt(CmsSystemPrompt).threw
            THEN /\ ppPc' = "failed"
                 /\ ppError' = TypeError
                 /\ UNCHANGED ppResult
            ELSE /\ ppPc' = "done"
                 /\ ppResult' = AssembleResult(m.heap, m.processed)
                 /\ UNCHANGED ppError
       ELSE IF m.rootRejected /\ ppPc = "resolving"
       THEN /\ ppPc' = "failed"
            /\ ppError' = err
            /\ UNCHANGED ppResult
       ELSE /\ ppPc' = IF ppPc = "top" THEN "resolving" ELSE ppPc
            /\ UNCHANGED <<ppResult, ppError>>

Quiescent ==
    /\ DOMAIN tasks = {}
    /\ \A k \in TopKeys : topData[k] # "pending"

\* a route handler calls processPage: the three fetches are issued
StartProcessPage ==
    /\ ppPc \in {"idle", "done", "failed"}
    /\ Quiescent
    /\ inv < MaxInvocations
    /\ inv' = inv + 1
    /\ ppPc' = "top"
    /\ topData' = [k \in TopKeys |-> "pending"]
    /\ IF scen.route = "perRequest"
       THEN /\ cache' = NoCache
            /\ heap' = <<>>
            /\ orig' = <<>>
            /\ copies' = {}
       ELSE UNCHANGED <<cache, heap, orig, copies>>
    /\ tasks' = NoTasks
    /\ nextId' = 1
    /\ ppResult' = NoResult
    /\ ppError' = NoError
    /\ docRoots' = <<>>
    /\ processed' = <<>>
    /\ fetchCount' = [c \in CompIds |-> 0]
    /\ failedEps' = {}
    /\ lateFill' = FALSE
    /\ UNCHANGED <<scen, served, extractVars, refreshVars, pureVars,
                   variantVars>>

\* a join that waits for the three fetches and ignores their failures
PromiseAllSettledState(td) ==
    IF \A k \in TopKeys : td[k] # "pending" THEN "fulfilled" ELSE "pending"

\* Promise.all over the three top-level fetches: rejected as soon as one is
\* rejected, fulfilled when all are fulfilled
PromiseAllState(td) ==
    IF \E k \in TopKeys : td[k] = "failed" THEN "rejected"
    ELSE IF \A k \in TopKeys : td[k] = "ok" THEN "fulfilled"
    ELSE "pending"

\* one of the three top-level requests ends
RespondTop(k, outcome) ==
    /\ ppPc # "hung"
    /\ topData[k] = "pending"
    /\ UNCHANGED <<scen, inv, extractVars, refreshVars, pureVars,
                   variantVars>>
    /\ LET td == [topData EXCEPT
                     ![k] = IF outcome = "ok" THEN "ok" ELSE "failed"]
           join == IF ppPc = "top" THEN PromiseAllState(td) ELSE "settled"
       IN  /\ topData' = td
           /\ failedEps' = IF outcome = "ok" THEN failedEps
                           ELSE failedEps \cup {TopEndpoint(k)}
           /\ IF join = "rejected"
              THEN /\ ppPc' = "failed"
                   /\ ppError' = FetchError(TopEndpoint(k), outcome)
                   /\ UNCHANGED <<heap, cache, tasks, nextId, ppResult, orig,
                                  copies, docRoots, processed, fetchCount,
                                  served, lateFill>>
              ELSE IF join = "fulfilled"
              THEN \* recursivelyFetchComponents(domResponse.nodes)
                   IF scen.shape = "bare"
                   THEN /\ ppPc' = "failed"
                        /\ ppError' = TypeError
                        /\ UNCHANGED <<heap, cache, tasks, nextId, ppResult,
                                       orig, copies, docRoots, processed,
                                       fetchCount, served, lateFill>>
                   ELSE LET doc == Docs[scen.doc]
                            base == Len(heap)
                            objs == Instantiate(doc, base)
                            roots == Shift(doc.roots, base)
                            r == ProcessList(
                                     [Machine EXCEPT !.heap = heap \o objs],
                                     roots, 0, 0, 0, MaxHitDepth)
                        IN  /\ Commit(r.m, NoError)
                            /\ orig' = orig \o objs
                            /\ docRoots' = roots
                            /\ UNCHANGED copies
              ELSE UNCHANGED <<heap, cache, tasks, nextId, ppPc, ppResult,
                               ppError, orig, copies, docRoots, processed,
                               fetchCount, served, lateFill>>

\* the request of a suspended getComponentDefinition call ends
RespondComponent(t, outcome) ==
    /\ ppPc # "hung"
    /\ t \in DOMAIN tasks
    /\ tasks[t].pc = "fetch"
    /\ UNCHANGED <<scen, inv, topData, docRoots, extractVars, refreshVars,
                   pureVars, variantVars>>
    /\ LET tk == tasks[t]
           c == tk.comp
       IN  IF outcome = "ok"
           THEN LET base == Len(heap)
                    objs == Instantiate(ComponentDefs[c], base)
                    roots == Shift(ComponentDefs[c].roots, base)
                    \* this.componentCache.set(componentId, data.nodes)
                    m0 == [Machine EXCEPT
                              !.heap = heap \o objs,
                              !.cache = Put(@, c, [nodes |-> roots, inv |-> inv]),
                              !.tasks = Drop(@, t)]
                    r == ProcessList(m0, roots, tk.node, tk.parent, tk.idx,
                                     MaxHitDepth)
                    m1 == IF r.done
                          THEN Complete(r.m, tk.parent, tk.idx, tk.node)
                          ELSE r.m
                IN  /\ Commit(m1, NoError)
                    /\ orig' = orig \o objs
                    /\ copies' = copies \cup {[comp |-> c, roots |-> roots]}
                    /\ UNCHANGED failedEps
           ELSE LET m1 == Reject([Machine EXCEPT !.tasks = Drop(@, t)],
                                 tk.parent)
                IN  /\ Commit(m1, FetchError(ComponentEndpoint(c), outcome))
                    /\ failedEps' = failedEps \cup {ComponentEndpoint(c)}
                    /\ UNCHANGED <<orig, copies>>

\* ------------------------------------------------------------------------
\* The refresh route (update-blob POST) and a reader of the pointer
\*
\* processPage is taken here by its outcome: the FetchResult of the content
\* the CMS serves when it is read, or a failure.
\* ------------------------------------------------------------------------
Refreshes == 1..MaxRefreshes

NoUrl == <<"none", 0>>

\* blob.url: the store gives every upload a url of its own
BlobUrl(r) == <<"blob", r>>

FetchResultAt(v) == [pages |-> v, caseStudies |-> v, systemPrompt |-> v]

\* JSON.stringify(fetchedData, null, 2)
Stringify(x) == <<"json", x>>

NoBlobs == [u \in {} |-> 0]

\* the refresh route touches neither a resolver nor an extraction state
RefreshFrame ==
    UNCHANGED <<heap, extractVars, mainVars, pureVars, variantVars>>

\* the body of a response
NoBody == [success |-> "none"]

Success(url) == [success |-> TRUE, blobUrl |-> url]

Failure == [success |-> FALSE]

\* the handler is called: new WebflowFetcher(); processPage()
RefreshStart(r) ==
    /\ rfPc[r] = "idle"
    /\ rfPc' = [rfPc EXCEPT ![r] = "fetching"]
    /\ cmsReads' = cmsReads + 1
    /\ UNCHANGED <<cmsVersion, hasToken, rfData, rfStatus, rfBody, rfSteps,
                   blobs, pointer, pointerBy, readerVars>>
    /\ RefreshFrame

\* the handler has a 500 response for every error it catches
Respond500(r) ==
    /\ rfPc' = [rfPc EXCEPT ![r] = "responded"]
    /\ rfStatus' = [rfStatus EXCEPT ![r] = 500]
    /\ rfBody' = [rfBody EXCEPT ![r] = Failure]

\* a handler that goes on to upload what a failed processPage left
ProcessPageFailureUploaded(r) ==
    /\ rfPc[r] = "fetching"
    /\ rfPc' = [rfPc EXCEPT ![r] = "uploading"]
    /\ UNCHANGED <<cmsVersion, hasToken, rfData, rfStatus, rfBody, rfSteps,
                   blobs, pointer, pointerBy, cmsReads, readerVars>>
    /\ RefreshFrame

\* processPage throws
ProcessPageFails(r) ==
    /\ rfPc[r] = "fetching"
    /\ Respond500(r)
    /\ UNCHANGED <<cmsVersion, hasToken, rfData, rfSteps, blobs, pointer,
                   pointerBy, cmsReads, readerVars>>
    /\ RefreshFrame

\* processPage returns: put(blobFilename, jsonData) is called
ProcessPageReturns(r) ==
    /\ rfPc[r] = "fetching"
    /\ rfData' = [rfData EXCEPT ![r] = cmsVersion]
    /\ rfPc' = [rfPc EXCEPT ![r] = "uploading"]
    /\ rfSteps' = [rfSteps EXCEPT ![r] = Append(@, "processPage")]
    /\ UNCHANGED <<cmsVersion, hasToken, rfStatus, rfBody, blobs, pointer,
                   pointerBy, cmsReads, readerVars>>
    /\ RefreshFrame

\* put returns the blob: the token is checked and the PATCH is sent
PutSucceeds(r) ==
    /\ rfPc[r] = "uploading"
    /\ blobs' = Put(blobs, BlobUrl(r), Stringify(FetchResultAt(rfData[r])))
    /\ rfSteps' = [rfSteps EXCEPT ![r] = Append(@, "put")]
    /\ IF hasToken
       THEN /\ rfPc' = [rfPc EXCEPT ![r] = "patching"]
            /\ UNCHANGED <<rfStatus, rfBody>>
       ELSE Respond500(r)
    /\ UNCHANGED <<cmsVersion, hasToken, rfData, pointer, pointerBy,
                   cmsReads, readerVars>>
    /\ RefreshFrame

\* put throws
PutFails(r) ==
    /\ rfPc[r] = "uploading"
    /\ Respond500(r)
    /\ UNCHANGED <<cmsVersion, hasToken, rfData, rfSteps, blobs, pointer,
                   pointerBy, cmsReads, readerVars>>
    /\ RefreshFrame

\* a handler that sends the PATCH without awaiting the upload
PatchSentEarly(p) == p \in {"uploading", "patching"}

\* the PATCH is sent only after `await put(...)` has returned the blob
PatchSent(p) == p = "patching"

\* Edge Config upserts latestContextUrl = blob.url and answers ok
PatchOk(r) ==
    /\ PatchSent(rfPc[r])
    /\ pointer' = BlobUrl(r)
    /\ pointerBy' = r
    /\ rfSteps' = [rfSteps EXCEPT ![r] = Append(@, "upsert")]
    /\ rfPc' = [rfPc EXCEPT ![r] = "responded"]
    /\ rfStatus' = [rfStatus EXCEPT ![r] = 200]
    /\ rfBody' = [rfBody EXCEPT ![r] = Success(BlobUrl(r))]
    /\ UNCHANGED <<cmsVersion, hasToken, rfData, blobs, cmsReads, readerVars>>
    /\ RefreshFrame

\* a handler that throws after an upsert that was applied
PatchAppliedNotOk(r) ==
    /\ PatchSent(rfPc[r])
    /\ pointer' = BlobUrl(r)
    /\ pointerBy' = r
    /\ Respond500(r)
    /\ UNCHANGED <<cmsVersion, hasToken, rfData, rfSteps, blobs, cmsReads,
                   readerVars>>
    /\ RefreshFrame

\* Edge Config refuses the update and leaves the item as it was: !response.ok
PatchNotOk(r) ==
    /\ PatchSent(rfPc[r])
    /\ Respond500(r)
    /\ UNCHANGED <<cmsVersion, hasToken, rfData, rfSteps, blobs, pointer,
                   pointerBy, cmsReads, readerVars>>
    /\ RefreshFrame

\* an editor publishes new content
CmsPublish ==
    /\ cmsVersion < MaxCmsVersion
    /\ cmsVersion' = cmsVersion + 1
    /\ UNCHANGED <<hasToken, rfPc, rfData, rfStatus, rfBody, rfSteps, blobs,
                   pointer, pointerBy, cmsReads, readerVars>>
    /\ RefreshFrame

\* ------------------------------------------------------------------------
\* The chat route (chat POST): the reader of the pointer
\* ------------------------------------------------------------------------
\* a handler that recomputes the context for the request it serves
ReaderRecomputes ==
    /\ cmsReads' = cmsReads + 1
    /\ UNCHANGED <<cmsVersion, hasToken, rfPc, rfData, rfStatus, rfBody,
                   rfSteps, blobs, pointer, pointerBy>>

\* the handler calls get(), fetch(url), generateObject() and, in
\* development, fs.writeFile on a local file: it has no call to the CMS, to
\* put() or to the Edge Config API
ReaderFrame ==
    UNCHANGED <<cmsVersion, hasToken, rfPc, rfData, rfStatus, rfBody, rfSteps,
                blobs, pointer, pointerBy, cmsReads>>

\* err.message in the body of the 500 response
NoMessage == "none"

NoPointerMessage == "Latest context URL not found in Edge Config"

BlobMessage == "Failed to fetch blob content"

\* the message of an error thrown by a callee
Thrown == "thrown"

\* return new Response(...), from the try block or from the catch block
ReaderResponds(status, message) ==
    /\ rdPc' = "responded"
    /\ rdStatus' = status
    /\ rdError' = message
    /\ rdResponses' = rdResponses + 1

\* the next chat request arrives
ReaderRequest ==
    /\ rdPc = "responded"
    /\ rdReq < MaxChats
    /\ rdReq' = rdReq + 1
    /\ rdError' = NoMessage
    /\ rdPc' = "idle"
    /\ rdUrl' = NoUrl
    /\ rdCtx' = <<"none", 0>>
    /\ rdStatus' = 0
    /\ rdLlm' = 0
    /\ rdResponses' = 0
    /\ ReaderFrame
    /\ RefreshFrame

\* req.json() or get() throws
ReaderThrowsEarly ==
    /\ rdPc = "idle"
    /\ ReaderResponds(500, Thrown)
    /\ UNCHANGED <<rdUrl, rdCtx, rdLlm, rdReq>>
    /\ ReaderFrame
    /\ RefreshFrame

\* const latestContextUrl = await get("latestContextUrl")
ReaderGetsPointer ==
    /\ rdPc = "idle"
    /\ pointer # NoUrl
    /\ rdUrl' = pointer
    /\ rdPc' = "hasUrl"
    /\ UNCHANGED <<rdCtx, rdStatus, rdLlm, rdResponses, rdError, rdReq>>
    /\ ReaderFrame
    /\ RefreshFrame

\* if (!latestContextUrl) throw
ReaderNoPointer ==
    /\ rdPc = "idle"
    /\ pointer = NoUrl
    /\ ReaderResponds(500, NoPointerMessage)
    /\ UNCHANGED <<rdUrl, rdCtx, rdLlm, rdReq>>
    /\ ReaderFrame
    /\ RefreshFrame

\* fetch(String(latestContextUrl)), then blobResponse.json(); a url the
\* store does not hold gets a response that is not ok
ReaderFetchesBlob ==
    /\ rdPc = "hasUrl"
    /\ IF rdUrl \in DOMAIN blobs
       THEN /\ rdCtx' = blobs[rdUrl]
            /\ rdPc' = "hasCtx"
            /\ UNCHANGED <<rdStatus, rdResponses, rdError>>
       ELSE /\ rdCtx' = <<"missing", rdUrl>>
            /\ ReaderResponds(500, BlobMessage)
    /\ UNCHANGED <<rdUrl, rdLlm, rdReq>>
    /\ ReaderFrame
    /\ RefreshFrame

\* the fetch throws, !blobResponse.ok, or blobResponse.json() throws
ReaderBlobNotOk ==
    /\ rdPc = "hasUrl"
    /\ \E message \in {BlobMessage, Thrown} : ReaderResponds(500, message)
    /\ UNCHANGED <<rdUrl, rdCtx, rdLlm, rdReq>>
    /\ ReaderFrame
    /\ RefreshFrame

\* a handler that calls the model while the blob is being fetched
ModelCalledEarly(p) == p \in {"hasUrl", "hasCtx"}

\* generateObject is called after contextData = await blobResponse.json()
ModelCalled(p) == p = "hasCtx"

\* await generateObject({..., system: JSON.stringify(contextData), ...})
ReaderCallsModel ==
    /\ ModelCalled(rdPc)
    /\ rdLlm' = rdLlm + 1
    /\ rdPc' = "generating"
    /\ UNCHANGED <<rdUrl, rdCtx, rdStatus, rdResponses, rdError, rdReq>>
    /\ ReaderFrame
    /\ RefreshFrame

\* generateObject returns the object: the 200 response
ReaderModelReturns ==
    /\ rdPc = "generating"
    /\ ReaderResponds(200, NoMessage)
    /\ UNCHANGED <<rdUrl, rdCtx, rdLlm, rdReq>>
    /\ ReaderFrame
    /\ RefreshFrame

\* generateObject throws (after its retries)
ReaderModelFails ==
    /\ rdPc = "generating"
    /\ ReaderResponds(500, Thrown)
    /\ UNCHANGED <<rdUrl, rdCtx, rdLlm, rdReq>>
    /\ ReaderFrame
    /\ RefreshFrame

\* the steps of the chat handler between a request and its response
ReaderNext ==
    \/ ReaderThrowsEarly
    \/ ReaderGetsPointer
    \/ ReaderNoPointer
    \/ ReaderFetchesBlob
    \/ ReaderBlobNotOk
    \/ ReaderCallsModel
    \/ ReaderModelReturns
    \/ ReaderModelFails

RefreshOff ==
    /\ cmsVersion = 0
    /\ hasToken = TRUE
    /\ rfPc = [r \in Refreshes |-> "off"]
    /\ rfData = [r \in Refreshes |-> 0]
    /\ rfStatus = [r \in Refreshes |-> 0]
    /\ rfBody = [r \in Refreshes |-> NoBody]
    /\ rfSteps = [r \in Refreshes |-> <<>>]
    /\ blobs = NoBlobs
    /\ pointer = NoUrl
    /\ pointerBy = 0
    /\ cmsReads = 0
    /\ rdPc = "off"
    /\ rdUrl = NoUrl
    /\ rdCtx = <<"none", 0>>
    /\ rdStatus = 0
    /\ rdLlm = 0
    /\ rdResponses = 0
    /\ rdError = NoMessage
    /\ rdReq = 1

\* ------------------------------------------------------------------------
\* The functions of the pipeline called on their own
\* ------------------------------------------------------------------------
\* titles: every string of at most MaxTitleLen characters over a letter, a
\* capital, a digit, a space, a hyphen and a punctuation mark, and the titles
\* "index", "Index", " Index", "in", "Case Studies!" and "  Multi   Space "
SlugAlphabet == {"a", "B", "1", " ", "-", "!"}

SlugTitles ==
    SeqUpTo(SlugAlphabet, MaxTitleLen)
    \cup {<<"i","n","d","e","x">>, <<"I","n","d","e","x">>,
          <<" ","I","n","d","e","x">>, <<"i","n">>,
          <<"C","a","s","e"," ","S","t","u","d","i","e","s","!">>,
          <<" "," ","M","u","l","t","i"," "," "," ","S","p","a","c","e"," ">>}

\* case-study items: names that differ in case and in surrounding
\* whitespace only, and another name; content present or not
CaseStudyItems ==
    [name : {<<"L","a">>, <<"l","a">>, <<" ","L","a"," ">>, <<"b">>},
     slug : {<<"s">>, <<"t">>},
     content : {Undefined, Str(<<"<p>", "x", "</p>">>), Str(<<"y">>)}]

\* system-prompt items: with or without fieldData, each field absent, null,
\* empty or set
SystemPromptItems ==
    [hasFieldData : BOOLEAN,
     style : {Undefined, Null, Str(<<>>), Str(<<"s">>)},
     patterns : {Undefined, Null, Str(<<>>), Str(<<"q">>)}]

\* html: every string of at most MaxHtmlLen tokens over HtmlAlphabet, and
\* three longer documents
HtmlAlphabet == {"<", ">", "/", "&", ";", " ", "script", "nbsp", "x"}

HtmlDocs ==
    {<<"<", "script", ">", "x", "<", "/", "script", ">", "<", "x", ">", "x",
       "&", "nbsp", ";", " ", "x", "<", "/", "x", ">">>,
     <<"<", "style", " ", "x", ">", "<", "x", ">", "<", "/", "style", ">",
       "\n", "x", "\n", "\n">>,
     <<"<", "figure", ">", "<", "/", "figure", ">", "&", "<", "x", ">",
       "nbsp", ";", "<", "<", "x", ">", "x", ">">>}

HtmlInputs == SeqUpTo(HtmlAlphabet, MaxHtmlLen) \cup HtmlDocs

\* accumulated contents: every string of at most MaxContentLen tokens over
\* a letter, the two whitespace characters, a markdown character, the
\* parentheses and a URL scheme
ContentAlphabet == {"a", " ", "\n", "*", "(", "http://", ")"}

Contents == SeqUpTo(ContentAlphabet, MaxContentLen)

\* ---- the latest-context route
allowedOrigins ==
    {"https://selfhood.global", "https://www.selfhood.global",
     "https://selfhood-new.webflow.io", "https://selfhoodglobal-new.webflow.io",
     "http://localhost:3000"}

AllowOrigin == "Access-Control-Allow-Origin"

\* a getCorsHeaders that echoes whatever origin the request names
getCorsHeadersEcho(origin) ==
    LET headers == [h \in {"Access-Control-Allow-Credentials",
                           "Access-Control-Allow-Methods",
                           "Access-Control-Allow-Headers"} |->
                       CASE h = "Access-Control-Allow-Credentials" -> "true"
                         [] h = "Access-Control-Allow-Methods" -> "GET,OPTIONS"
                         [] OTHER -> "Content-Type"]
    IN  IF origin # ""
        THEN Put(headers, AllowOrigin, origin)
        ELSE headers

\* getCorsHeaders(origin): the three fixed headers, and the origin when it is
\* a non-empty member of allowedOrigins
getCorsHeaders(origin) ==
    LET headers == [h \in {"Access-Control-Allow-Credentials",
                           "Access-Control-Allow-Methods",
                           "Access-Control-Allow-Headers"} |->
                       CASE h = "Access-Control-Allow-Credentials" -> "true"
                         [] h = "Access-Control-Allow-Methods" -> "GET,OPTIONS"
                         [] OTHER -> "Content-Type"]
    IN  IF origin # "" /\ origin \in allowedOrigins
        THEN Put(headers, AllowOrigin, origin)
        ELSE headers

\* the Origin header of a request: absent, or present with a value
NoOrigin == [present |-> FALSE, value |-> ""]

Origin(o) == [present |-> TRUE, value |-> o]

\* req.headers.get("origin") || ""
OriginOf(req) == IF req.origin.present THEN req.origin.value ELSE ""

\* { 'Content-Type': 'application/json', ...getCorsHeaders(origin) }
JsonHeaders(origin) ==
    LET cors == getCorsHeaders(origin)
    IN  [h \in DOMAIN cors \cup {"Content-Type"} |->
            IF h \in DOMAIN cors THEN cors[h] ELSE "application/json"]

\* OPTIONS(req)
latestContextOPTIONS(req) ==
    [status |-> 204, headers |-> getCorsHeaders(OriginOf(req))]

\* GET(req): EDGE_CONFIG_ID missing, edgeConfig.get returns, or it throws
latestContextGET(req) ==
    IF ~req.envSet
    THEN [status |-> 500, headers |-> JsonHeaders(OriginOf(req))]
    ELSE IF req.getOk
    THEN [status |-> 200, headers |-> JsonHeaders(OriginOf(req))]
    ELSE [status |-> 500, headers |-> JsonHeaders(OriginOf(req))]

\* requests: no Origin header, an empty one, each allowed origin, an allowed
\* origin in capitals or with a trailing slash or over http, and a stranger
RequestOrigins ==
    {NoOrigin} \cup {Origin(o) : o \in allowedOrigins}
    \cup {Origin(""), Origin("HTTPS://SELFHOOD.GLOBAL"),
          Origin("https://selfhood.global/"), Origin("http://selfhood.global"),
          Origin("https://evil.example")}

LatestContextRequests ==
    [method : {"OPTIONS", "GET"}, origin : RequestOrigins,
     envSet : BOOLEAN, getOk : BOOLEAN]

PureCalls ==
    {[fn |-> "createSlug", arg |-> t] : t \in SlugTitles}
    \cup {[fn |-> "standardizeContent", arg |-> c] : c \in Contents}
    \cup {[fn |-> "convertHtmlToMarkdown", arg |-> h] : h \in HtmlInputs}
    \cup {[fn |-> "transformCaseStudies", arg |-> items] :
             items \in SeqUpTo(CaseStudyItems, MaxItems)}
    \cup {[fn |-> "transformSystemPrompt", arg |-> item] :
             item \in SystemPromptItems}
    \cup {[fn |-> "latestContext", arg |-> req] :
             req \in LatestContextRequests}

PureFrame ==
    UNCHANGED <<heap, extractVars, mainVars, refreshVars, pfFn, pfIn,
                variantVars>>

CallCreateSlug ==
    /\ pfFn = "createSlug"
    /\ pfN = 0
    /\ pfOut' = createSlug(pfIn)
    /\ pfN' = 1
    /\ UNCHANGED pfPrev
    /\ PureFrame

CallTransformCaseStudies ==
    /\ pfFn = "transformCaseStudies"
    /\ pfN = 0
    /\ pfOut' = transformCaseStudies(pfIn)
    /\ pfN' = 1
    /\ UNCHANGED pfPrev
    /\ PureFrame

CallTransformSystemPrompt ==
    /\ pfFn = "transformSystemPrompt"
    /\ pfN = 0
    /\ pfOut' = transformSystemPrompt(pfIn)
    /\ pfN' = 1
    /\ UNCHANGED pfPrev
    /\ PureFrame

\* convertHtmlToMarkdown called on the argument, then on its own result
CallConvertHtmlToMarkdown ==
    /\ pfFn = "convertHtmlToMarkdown"
    /\ pfN < 2
    /\ pfOut' = convertHtmlToMarkdown(IF pfN = 0 THEN pfIn ELSE pfOut)
    /\ pfPrev' = pfOut
    /\ pfN' = pfN + 1
    /\ PureFrame

\* standardizeContent called on the argument, then on its own result
CallStandardizeContent ==
    /\ pfFn = "standardizeContent"
    /\ pfN < 2
    /\ pfOut' = standardizeContent(IF pfN = 0 THEN pfIn ELSE pfOut)
    /\ pfPrev' = pfOut
    /\ pfN' = pfN + 1
    /\ PureFrame

\* the latest-context route answers a request
CallLatestContext ==
    /\ pfFn = "latestContext"
    /\ pfN = 0
    /\ pfOut' = IF pfIn.method = "OPTIONS" THEN latestContextOPTIONS(pfIn)
                ELSE latestContextGET(pfIn)
    /\ pfN' = 1
    /\ UNCHANGED pfPrev
    /\ PureFrame

PureOff ==
    /\ pfFn = "none"
    /\ pfIn = <<>>
    /\ pfOut = <<>>
    /\ pfPrev = <<>>
    /\ pfN = 0

\* ------------------------------------------------------------------------
\* The Edge Config cache variants: the webhook route and the cache-aside
\* chat route, with processPage(pageId) of lib/webflow-fetcher.js
\* ------------------------------------------------------------------------
CacheRequests == 1..MaxCacheRequests

\* the key is not in the Edge Config
Absent == [absent |-> TRUE]

\* catch (error) { return { error: error.message, details: error.cause } }
ErrorResult == [error |-> "axios message", details |-> Undefined]

\* the CMS requests of one processPage(pageId): the three top-level fetches
\* and the component fetches
CmsRequests == TopKeys \cup {"components"}

\* processPage(pageId): the assembled result, or the error object the catch
\* block returns
processPageJs(outcome) ==
    IF \A k \in CmsRequests : outcome[k] = "ok"
    THEN FetchResultAt(0)
    ELSE ErrorResult

\* the cache variants touch nothing of the other routes
CacheFrame ==
    UNCHANGED <<heap, extractVars, mainVars, refreshVars, pureVars, memoVars,
                ccEnv, ccKind>>

CacheResponds(r, status) ==
    /\ ccPc' = [ccPc EXCEPT ![r] = "responded"]
    /\ ccStatus' = [ccStatus EXCEPT ![r] = status]

\* webhook route: new WebflowFetcher(), which throws without an API token;
\* processPage(WEBFLOW_PAGE_ID)
WebhookStart(r) ==
    /\ ccKind[r] = "webhook"
    /\ ccPc[r] = "idle"
    /\ \E built \in BOOLEAN :
          IF built
          THEN /\ ccPc' = [ccPc EXCEPT ![r] = "fetching"]
               /\ UNCHANGED ccStatus
          ELSE CacheResponds(r, 500)
    /\ UNCHANGED <<ccData, ccFailed, ccStore>>
    /\ CacheFrame

\* chat route: the module loaded (EDGE_CONFIG is set); await req.json()
ChatStart(r) ==
    /\ ccKind[r] = "chat"
    /\ ccEnv
    /\ ccPc[r] = "idle"
    /\ \E parsed \in BOOLEAN :
          IF parsed
          THEN /\ ccPc' = [ccPc EXCEPT ![r] = "reading"]
               /\ UNCHANGED ccStatus
          ELSE CacheResponds(r, 500)
    /\ UNCHANGED <<ccData, ccFailed, ccStore>>
    /\ CacheFrame

\* chat route: getCachedData() returns the item, or null on a response that
\* is not ok or on an error; if (!contextData) processPage(WEBFLOW_PAGE_ID)
ChatReadsCache(r) ==
    /\ ccPc[r] = "reading"
    /\ \E got \in {Absent, ccStore} :
          IF got = Absent
          THEN /\ ccPc' = [ccPc EXCEPT ![r] = "fetching"]
               /\ UNCHANGED ccData
          ELSE /\ ccData' = [ccData EXCEPT ![r] = got]
               /\ ccPc' = [ccPc EXCEPT ![r] = "hasCtx"]
    /\ UNCHANGED <<ccStatus, ccFailed, ccStore>>
    /\ CacheFrame

\* processPage(pageId) returns; the webhook route then checks EDGE_CONFIG and
\* sends the PATCH, the chat route calls setCachedData(contextData)
CacheProcessPage(r) ==
    /\ ccPc[r] = "fetching"
    /\ \E outcome \in [CmsRequests -> {"ok", "axios"}] :
          /\ ccData' = [ccData EXCEPT ![r] = processPageJs(outcome)]
          /\ ccFailed' = [ccFailed EXCEPT
                             ![r] = \E k \in CmsRequests : outcome[k] # "ok"]
          /\ IF ccKind[r] = "webhook" /\ ~ccEnv
             THEN CacheResponds(r, 500)
             ELSE /\ ccPc' = [ccPc EXCEPT ![r] = "patching"]
                  /\ UNCHANGED ccStatus
    /\ UNCHANGED ccStore
    /\ CacheFrame

\* Edge Config upserts the key with the value sent and answers ok
CachePatchOk(r) ==
    /\ ccPc[r] = "patching"
    /\ ccStore' = ccData[r]
    /\ IF ccKind[r] = "webhook"
       THEN CacheResponds(r, 200)
       ELSE /\ ccPc' = [ccPc EXCEPT ![r] = "hasCtx"]
            /\ UNCHANGED ccStatus
    /\ UNCHANGED <<ccData, ccFailed>>
    /\ CacheFrame

\* the PATCH is refused or throws: the webhook route throws, setCachedData
\* logs and returns
CachePatchNotOk(r) ==
    /\ ccPc[r] = "patching"
    /\ IF ccKind[r] = "webhook"
       THEN CacheResponds(r, 500)
       ELSE /\ ccPc' = [ccPc EXCEPT ![r] = "hasCtx"]
            /\ UNCHANGED ccStatus
    /\ UNCHANGED <<ccData, ccFailed, ccStore>>
    /\ CacheFrame

\* chat route: anthropic.messages.create returns (200) or throws (500)
ChatModelAnswers(r) ==
    /\ ccPc[r] = "hasCtx"
    /\ \E status \in {200, 500} : CacheResponds(r, status)
    /\ UNCHANGED <<ccData, ccFailed, ccStore>>
    /\ CacheFrame

CacheOff ==
    /\ ccEnv = TRUE
    /\ ccKind = [r \in CacheRequests |-> "none"]
    /\ ccPc = [r \in CacheRequests |-> "off"]
    /\ ccData = [r \in CacheRequests |-> Absent]
    /\ ccStatus = [r \in CacheRequests |-> 0]
    /\ ccFailed = [r \in CacheRequests |-> FALSE]
    /\ ccStore = Absent

\* ------------------------------------------------------------------------
\* The in-memory cache variant: lib/webflow.ts and its refresh route
\* ------------------------------------------------------------------------
MemoCalls == 1..MaxMemoCalls

\* cachedData = null
NoData == [data |-> "null", issuedAt |-> 0]

\* the WebflowData built from the responses to the requests issued at time t
DataOf(t) == [data |-> "context", issuedAt |-> t]

MemoFrame ==
    UNCHANGED <<heap, extractVars, mainVars, refreshVars, pureVars, cacheVars>>

\* fetchWebflowData(): if (cachedData) return cachedData
MemoCallHit(c) ==
    /\ wfPc[c] = "idle"
    /\ wfCached # NoData
    /\ wfNow' = wfNow + 1
    /\ wfStarted' = [wfStarted EXCEPT ![c] = wfNow']
    /\ wfResult' = [wfResult EXCEPT ![c] = wfCached]
    /\ wfPc' = [wfPc EXCEPT ![c] = "returned"]
    /\ UNCHANGED <<wfCached, wfInvalidated, wfIssued>>
    /\ MemoFrame

\* fetchWebflowData(): cachedData is null, the six requests are issued
MemoCallMiss(c) ==
    /\ wfPc[c] = "idle"
    /\ wfCached = NoData
    /\ wfNow' = wfNow + 1
    /\ wfStarted' = [wfStarted EXCEPT ![c] = wfNow']
    /\ wfIssued' = [wfIssued EXCEPT ![c] = wfNow']
    /\ wfPc' = [wfPc EXCEPT ![c] = "fetching"]
    /\ UNCHANGED <<wfCached, wfInvalidated, wfResult>>
    /\ MemoFrame

\* Promise.all fulfils: cachedData = data; return data
MemoFetchReturns(c) ==
    /\ wfPc[c] = "fetching"
    /\ wfCached' = DataOf(wfIssued[c])
    /\ wfResult' = [wfResult EXCEPT ![c] = DataOf(wfIssued[c])]
    /\ wfPc' = [wfPc EXCEPT ![c] = "returned"]
    /\ UNCHANGED <<wfNow, wfInvalidated, wfStarted, wfIssued>>
    /\ MemoFrame

\* a request fails: fetchWebflowData throws
MemoFetchFails(c) ==
    /\ wfPc[c] = "fetching"
    /\ wfPc' = [wfPc EXCEPT ![c] = "threw"]
    /\ UNCHANGED <<wfCached, wfNow, wfInvalidated, wfStarted, wfIssued,
                   wfResult>>
    /\ MemoFrame

\* the refresh route: await invalidateWebflowCache(), then fetchWebflowData()
\* which finds cachedData null and issues its requests; its response is 200
\* with the data when the call returns and 500 when it throws
MemoRefreshPost(c) ==
    /\ wfPc[c] = "idle"
    /\ wfCached' = NoData
    /\ wfInvalidated' = wfNow + 1
    /\ wfNow' = wfNow + 2
    /\ wfStarted' = [wfStarted EXCEPT ![c] = wfNow']
    /\ wfIssued' = [wfIssued EXCEPT ![c] = wfNow']
    /\ wfPc' = [wfPc EXCEPT ![c] = "fetching"]
    /\ UNCHANGED wfResult
    /\ MemoFrame

MemoOff ==
    /\ wfCached = NoData
    /\ wfNow = 0
    /\ wfInvalidated = 0
    /\ wfPc = [c \in MemoCalls |-> "off"]
    /\ wfStarted = [c \in MemoCalls |-> 0]
    /\ wfIssued = [c \in MemoCalls |-> 0]
    /\ wfResult = [c \in MemoCalls |-> NoData]

Init ==
    /\ scen \in [doc : DOMAIN Docs, shape : Shapes, route : Routes]
    /\ heap = <<>>
    /\ inv = 0
    /\ ppPc = "idle"
    /\ topData = [k \in TopKeys |-> "none"]
    /\ cache = NoCache
    /\ tasks = NoTasks
    /\ nextId = 1
    /\ ppResult = NoResult
    /\ ppError = NoError
    /\ orig = <<>>
    /\ copies = {}
    /\ docRoots = <<>>
    /\ processed = <<>>
    /\ fetchCount = [c \in CompIds |-> 0]
    /\ failedEps = {}
    /\ served = {}
    /\ lateFill = FALSE
    /\ ExtractOff
    /\ RefreshOff
    /\ PureOff
    /\ CacheOff
    /\ MemoOff

Next ==
    \/ StartProcessPage
    \/ \E k \in TopKeys, o \in Outcomes : RespondTop(k, o)
    \/ \E t \in DOMAIN tasks, o \in Outcomes : RespondComponent(t, o)

Spec == Init /\ [][Next]_vars

\* a request of the running invocation that has not got its response
TopPending(k) == ppPc # "hung" /\ topData[k] = "pending"

FetchPending(t) ==
    ppPc # "hung" /\ t \in DOMAIN tasks /\ tasks[t].pc = "fetch"

\* every issued request eventually gets its response (data or an error): no
\* request stays pending for ever.  TopPending(k) and FetchPending(t) are the
\* enabling conditions of RespondTop(k, _) and RespondComponent(t, _), the
\* only steps that end them, so these conditions are weak fairness of the
\* two response actions, written on the states.
Responsive ==
    /\ \A k \in TopKeys : []<>(~TopPending(k))
    /\ \A t \in 1..MaxTaskId : []<>(~FetchPending(t))

SpecLive == Init /\ [][Next]_vars /\ Responsive

\* ------------------------------------------------------------------------
\* SpecExtract: extractContent on bounded node trees, one visit per step
\* ------------------------------------------------------------------------
MainOff ==
    /\ scen = [doc |-> "plain", shape |-> "wrapped", route |-> "perRequest"]
    /\ inv = 0
    /\ ppPc = "off"
    /\ topData = [k \in TopKeys |-> "none"]
    /\ cache = NoCache
    /\ tasks = NoTasks
    /\ nextId = 1
    /\ ppResult = NoResult
    /\ ppError = NoError
    /\ orig = <<>>
    /\ copies = {}
    /\ docRoots = <<>>
    /\ processed = <<>>
    /\ fetchCount = [c \in CompIds |-> 0]
    /\ failedEps = {}
    /\ served = {}
    /\ lateFill = FALSE

InitExtract ==
    /\ \E items \in (SeqUpTo(Items, MaxTop) \ {<<>>}) \cup {HomeItems} :
          /\ heap = BuildHeap(items)
          /\ exTodo = [i \in 1..Len(items) |-> i]
    /\ exPc = "traversing"
    /\ exTrace = <<>>
    /\ pages = NoPages
    /\ currentPage = NullPage
    /\ MainOff
    /\ RefreshOff
    /\ PureOff
    /\ CacheOff
    /\ MemoOff

SpecExtract == InitExtract /\ [][NextExtract]_vars

\* ------------------------------------------------------------------------
\* SpecRefresh: concurrent refresh requests, a publishing CMS and a reader
\* ------------------------------------------------------------------------
InitRefresh ==
    /\ cmsVersion = 0
    /\ hasToken \in BOOLEAN
    /\ rfPc = [r \in Refreshes |-> "idle"]
    /\ rfData = [r \in Refreshes |-> 0]
    /\ rfStatus = [r \in Refreshes |-> 0]
    /\ rfBody = [r \in Refreshes |-> NoBody]
    /\ rfSteps = [r \in Refreshes |-> <<>>]
    /\ blobs = NoBlobs
    /\ pointer = NoUrl
    /\ pointerBy = 0
    /\ cmsReads = 0
    /\ rdPc = "idle"
    /\ rdUrl = NoUrl
    /\ rdCtx = <<"none", 0>>
    /\ rdStatus = 0
    /\ rdLlm = 0
    /\ rdResponses = 0
    /\ rdError = NoMessage
    /\ rdReq = 1
    /\ heap = <<>>
    /\ MainOff
    /\ ExtractOff
    /\ PureOff
    /\ CacheOff
    /\ MemoOff

NextRefresh ==
    \/ \E r \in Refreshes : RefreshStart(r)
    \/ \E r \in Refreshes : ProcessPageReturns(r)
    \/ \E r \in Refreshes : ProcessPageFails(r)
    \/ \E r \in Refreshes : PutSucceeds(r)
    \/ \E r \in Refreshes : PutFails(r)
    \/ \E r \in Refreshes : PatchOk(r)
    \/ \E r \in Refreshes : PatchNotOk(r)
    \/ CmsPublish
    \/ ReaderRequest
    \/ ReaderThrowsEarly
    \/ ReaderGetsPointer
    \/ ReaderNoPointer
    \/ ReaderFetchesBlob
    \/ ReaderBlobNotOk
    \/ ReaderCallsModel
    \/ ReaderModelReturns
    \/ ReaderModelFails

SpecRefresh ==
    InitRefresh /\ [][NextRefresh]_vars

\* the chat handler is a running async function: each of its awaits settles
SpecChat == SpecRefresh /\ WF_vars(ReaderNext)

\* ------------------------------------------------------------------------
\* SpecPure: one function called on an argument of a bounded set
\* ------------------------------------------------------------------------
InitPure ==
    /\ \E call \in PureCalls :
          /\ pfFn = call.fn
          /\ pfIn = call.arg
    /\ pfOut = <<>>
    /\ pfPrev = <<>>
    /\ pfN = 0
    /\ heap = <<>>
    /\ MainOff
    /\ ExtractOff
    /\ RefreshOff
    /\ CacheOff
    /\ MemoOff

NextPure ==
    \/ CallCreateSlug
    \/ CallTransformCaseStudies
    \/ CallTransformSystemPrompt
    \/ CallConvertHtmlToMarkdown
    \/ CallStandardizeContent
    \/ CallLatestContext

SpecPure == InitPure /\ [][NextPure]_vars

\* ------------------------------------------------------------------------
\* SpecCache: webhook and chat requests of the Edge Config cache variants
\* ------------------------------------------------------------------------
InitCache ==
    /\ ccEnv \in BOOLEAN
    /\ ccKind \in [CacheRequests -> {"webhook", "chat"}]
    /\ ccPc = [r \in CacheRequests |-> "idle"]
    /\ ccData = [r \in CacheRequests |-> Absent]
    /\ ccStatus = [r \in CacheRequests |-> 0]
    /\ ccFailed = [r \in CacheRequests |-> FALSE]
    /\ ccStore = Absent
    /\ heap = <<>>
    /\ MainOff
    /\ ExtractOff
    /\ RefreshOff
    /\ PureOff
    /\ MemoOff

NextCache ==
    \/ \E r \in CacheRequests : WebhookStart(r)
    \/ \E r \in CacheRequests : ChatStart(r)
    \/ \E r \in CacheRequests : ChatReadsCache(r)
    \/ \E r \in CacheRequests : CacheProcessPage(r)
    \/ \E r \in CacheRequests : CachePatchOk(r)
    \/ \E r \in CacheRequests : CachePatchNotOk(r)
    \/ \E r \in CacheRequests : ChatModelAnswers(r)

SpecCache == InitCache /\ [][NextCache]_vars

\* ------------------------------------------------------------------------
\* SpecMemo: concurrent fetchWebflowData calls and refresh requests
\* ------------------------------------------------------------------------
InitMemo ==
    /\ wfCached = NoData
    /\ wfNow = 0
    /\ wfInvalidated = 0
    /\ wfPc = [c \in MemoCalls |-> "idle"]
    /\ wfStarted = [c \in MemoCalls |-> 0]
    /\ wfIssued = [c \in MemoCalls |-> 0]
    /\ wfResult = [c \in MemoCalls |-> NoData]
    /\ heap = <<>>
    /\ MainOff
    /\ ExtractOff
    /\ RefreshOff
    /\ PureOff
    /\ CacheOff

NextMemo ==
    \/ \E c \in MemoCalls : MemoCallHit(c)
    \/ \E c \in MemoCalls : MemoCallMiss(c)
    \/ \E c \in MemoCalls : MemoFetchReturns(c)
    \/ \E c \in MemoCalls : MemoFetchFails(c)
    \/ \E c \in MemoCalls : MemoRefreshPost(c)

SpecMemo == InitMemo /\ [][NextMemo]_vars

\* ------------------------------------------------------------------------
\* Properties of the extraction (SpecExtract)
\* ------------------------------------------------------------------------
NonTitleText(node) ==
    node.type = "text" /\ node.html # <<>> /\ ~IsPageTitle(node.html)

IsMarker(node) ==
    node.type = "text" /\ node.html # <<>> /\ IsPageTitle(node.html)

\* the last page-title marker among the visited nodes
RECURSIVE LastMarker(_, _)
LastMarker(h, trace) ==
    IF trace = <<>> THEN [seen |-> FALSE, title |-> <<>>]
    ELSE IF IsMarker(h[trace[Len(trace)]])
         THEN [seen |-> TRUE, title |-> Trim(h[trace[Len(trace)]].text)]
         ELSE LastMarker(h, SubSeq(trace, 1, Len(trace) - 1))

\* what a text node adds to its page
Contribution(node) == sanitizeContent(turndown(node.html)) \o <<"\n">>

BucketStep ==
    LET node == heap[Head(exTodo)]
        marker == LastMarker(heap, exTrace)
    IN  NonTitleText(node) =>
            IF ~marker.seen
            THEN pages' = pages
            ELSE /\ marker.title \in DOMAIN pages
                 /\ DOMAIN pages' = DOMAIN pages
                 /\ pages'[marker.title].content =
                        pages[marker.title].content \o Contribution(node)
                 /\ \A t \in DOMAIN pages \ {marker.title} :
                        pages'[t] = pages[t]

\* C2: title bucketing. A non-title text node visited before the first
\* page-title marker changes no page; one visited after the marker of
\* trimmed title T (and before the next marker) appends its text to page T
\* and changes no other page, for every title, the empty one included.
C2_TitleBucketing == [][TraverseStep => BucketStep]_vars

\* C6: during the traversal a page is never deleted or reset: the content
\* held under a title is a prefix of the content held under it one step
\* later (hence at every later step), also when marker titles repeat.
C6_AppendOnly ==
    [][(exPc = "traversing" /\ exPc' = "traversing") =>
          \A t \in DOMAIN pages :
              /\ t \in DOMAIN pages'
              /\ IsPrefix(pages[t].content, pages'[t].content)]_vars

\* the trimmed plain texts of the page-title markers of the tree
MarkerTitles ==
    {Trim(heap[n].text) : n \in {x \in DOMAIN heap : IsMarker(heap[x])}}

HomePages ==
    [t \in {<<"H", "o", "m", "e">>} |->
        [title |-> <<"H", "o", "m", "e">>,
         slug |-> <<"/", "h", "o", "m", "e">>,
         content |-> <<"W", "e", "l", "c", "o", "m", "e">>]]

\* C19: the pages map returned by extractContent has exactly one entry per
\* distinct trimmed plain text of a page-title marker; the title of an entry
\* is its key and its slug is createSlug(title); marker "Home" followed by
\* "<p>Welcome</p>" gives {Home: {title "Home", slug "/home", content
\* "Welcome"}}.
C19_OneEntryPerTitle ==
    exPc = "done" =>
        /\ DOMAIN pages = MarkerTitles
        /\ \A t \in DOMAIN pages :
              /\ pages[t].title = t
              /\ pages[t].slug = createSlug(t)
        /\ heap = BuildHeap(HomeItems) => pages = HomePages

\* ------------------------------------------------------------------------
\* Properties of processPage and the component resolver (Spec)
\* ------------------------------------------------------------------------
IsInstance(node) == node.type = "component-instance" /\ node.componentId # ""

FailedTop == {k \in TopKeys : topData[k] = "failed"}

FailedComponents == {c \in CompIds : ComponentEndpoint(c) \in failedEps}

\* C1: within one processPage invocation every componentId is fetched at
\* most once, also when several instances of it are resolved concurrently.
C1_OneFetchPerComponent == \A c \in CompIds : fetchCount[c] <= 1

TopFailureFails ==
    FailedTop # {} =>
        /\ ppPc = "failed"
        /\ ~ppResult.returned
        /\ ppError.endpoint \in {TopEndpoint(k) : k \in FailedTop}

FailureIsFinal ==
    (ppPc = "failed" /\ inv' = inv) =>
        (ppPc' = "failed" /\ ppError' = ppError /\ ~ppResult'.returned)

\* C3: all-or-nothing join. Once one of the three top-level fetches has
\* failed, processPage has failed with the error of a failed top-level fetch
\* and has returned no FetchResult; the failure of an invocation is final,
\* whatever the other requests do afterwards.
C3_AllOrNothingJoin == []TopFailureFails /\ [][FailureIsFinal]_vars

\* one top-level fetch failed after the other two had succeeded
W_C3 ==
    /\ ppPc = "failed"
    /\ topData["dom"] = "ok"
    /\ topData["caseStudies"] = "ok"
    /\ topData["systemPrompt"] = "failed"

HasMarker(tpl) ==
    \E i \in 1..Len(tpl.nodes) : IsMarker(tpl.nodes[i])

\* C4: shape tolerance. Neither response shape of the document tree makes
\* processPage fail (it fails only when a fetch failed), and when the
\* document holds page-title markers the returned pages map is not empty.
C4_ShapeTolerance ==
    /\ ppPc = "failed" => failedEps # {}
    /\ (ppPc = "done" /\ HasMarker(Docs[scen.doc])) =>
           DOMAIN ppResult.pages # {}

\* C5: every processPage invocation starts with an empty component cache,
\* and a definition is only served from the cache to the invocation that
\* fetched it, for every route.
C5_CachePerInvocation ==
    /\ ppPc = "top" => DOMAIN cache = {}
    /\ \A p \in served : p[1] = p[2]

\* C9: once the fetch of a component definition has failed, processPage has
\* failed with the error of a failed component fetch and has returned no
\* FetchResult.
C9_ComponentFailureIsFatal ==
    FailedComponents # {} =>
        /\ ppPc = "failed"
        /\ ~ppResult.returned
        /\ ppError.endpoint \in {ComponentEndpoint(c) : c \in FailedComponents}
        /\ ppError.msg \in {"axios message", "Unknown error"}

\* the definition of B, nested in the resolved definition of A, failed
W_C9 ==
    /\ ppPc = "failed"
    /\ "A" \in DOMAIN cache
    /\ FailedComponents = {"B"}

\* C10: the resolver keeps length and order. processedNodes is the input
\* node sequence; the children of an ordinary node are its input children in
\* their order; the children of a resolved instance are the nodes of one
\* fetched copy of its definition in their order; under every order in which
\* the concurrent resolutions and fetches complete.
C10_OrderPreserved ==
    /\ ppPc = "done" => processed = docRoots
    /\ \A n \in DOMAIN heap :
          IF IsInstance(heap[n])
          THEN \/ heap[n].children = <<>>
               \/ \E cp \in copies : /\ cp.comp = heap[n].componentId
                                     /\ cp.roots = heap[n].children
          ELSE heap[n].children = orig[n].children

\* processPage returned after a later sibling had completed before an
\* earlier one
W_C10 == ppPc = "done" /\ lateFill

\* the subtree of node n in heap h, by value
RECURSIVE ResolvedTree(_, _, _)
ResolvedTree(h, n, fuel) ==
    [type |-> h[n].type, componentId |-> h[n].componentId,
     html |-> h[n].html, text |-> h[n].text,
     kids |-> IF fuel = 0 THEN <<>>
              ELSE [i \in 1..Len(h[n].children) |->
                       ResolvedTree(h, h[n].children[i], fuel - 1)]]

ChildrenOf(h, S) ==
    UNION {{h[n].children[i] : i \in 1..Len(h[n].children)} : n \in S}

RECURSIVE Reach(_, _, _)
Reach(h, S, fuel) ==
    IF fuel = 0 THEN S ELSE Reach(h, S \cup ChildrenOf(h, S), fuel - 1)

\* the nodes of the resolved document tree
DocNodes ==
    Reach(heap, {processed[i] : i \in 1..Len(processed)}, Len(heap))

DocInstances == {n \in DocNodes : IsInstance(heap[n])}

\* C11: when resolution has completed, two component-instance nodes of the
\* document that reference the same componentId have structurally equal
\* resolved children, under every interleaving of the resolutions.
C11_SameComponentSameChildren ==
    ppPc = "done" =>
        \A n1, n2 \in DocInstances :
            heap[n1].componentId = heap[n2].componentId =>
                ResolvedTree(heap, n1, Len(heap)).kids =
                    ResolvedTree(heap, n2, Len(heap)).kids

\* two instances of A share the cached definition nodes, and the instance of
\* B among these nodes was resolved by two concurrent resolutions
W_C11 ==
    /\ ppPc = "done"
    /\ fetchCount["B"] = 2
    /\ \E n1, n2 \in DocInstances :
          /\ n1 # n2
          /\ heap[n1].componentId = "A"
          /\ heap[n2].componentId = "A"
          /\ heap[n1].children # <<>>
          /\ heap[n1].children = heap[n2].children

\* C12: cycles are not detected. When the resolver works on a document that
\* reaches a component embedding itself, directly or through other
\* components, then as long as no fetch has failed processPage has neither
\* returned a FetchResult nor reported an error; and once the resolver
\* recurses through the cache without end that stays so.
C12_CyclesNotDetected ==
    /\ (scen.doc \in CyclicDocs /\ docRoots # <<>> /\ failedEps = {}) =>
          /\ ppPc \in {"resolving", "hung"}
          /\ ~ppResult.returned
          /\ ppError = NoError
    /\ ppPc = "hung" =>
          /\ scen.doc \in CyclicDocs
          /\ ~ppResult.returned
          /\ ppError = NoError
          /\ ~ENABLED Next

\* every fetch succeeded and the resolver recurses without end through the
\* cached definitions of M and N, which embed each other
W_C12 ==
    /\ ppPc = "hung"
    /\ failedEps = {}
    /\ {"M", "N"} \subseteq DOMAIN cache

\* C13: when the component graph reachable from the document is acyclic and
\* every issued fetch eventually returns, a started processPage eventually
\* completes, with a FetchResult or with a failure.
C13_AcyclicTerminates ==
    (scen.doc \notin CyclicDocs /\ ppPc \in {"top", "resolving"})
        ~> (ppPc \in {"done", "failed"})

\* processPage returned after the definitions of A, B and C, nested in each
\* other, had been fetched
W_C13 ==
    /\ ppPc = "done"
    /\ scen.doc = "shared"
    /\ ppResult.returned
    /\ \A c \in {"A", "B", "C"} : fetchCount[c] >= 1

\* a step of the running invocation sends no request to an endpoint whose
\* request has failed
NoFurtherRequest ==
    (inv' = inv) =>
        /\ \A c \in CompIds :
              ComponentEndpoint(c) \in failedEps =>
                  fetchCount'[c] <= fetchCount[c]
        /\ \A k \in TopKeys :
              topData[k] = "failed" => topData'[k] # "pending"

\* C14: no retries. Once a request to an endpoint has failed, the invocation
\* sends no further request to that endpoint, and it has ended in failure.
C14_NoRetries ==
    /\ [][NoFurtherRequest]_vars
    /\ [](failedEps # {} => ppPc = "failed")

\* a request ends with the failure o
FailsWith(o) ==
    \/ \E k \in TopKeys : RespondTop(k, o)
    \/ \E t \in DOMAIN tasks : RespondComponent(t, o)

FailureTagged(kinds) ==
    \A o \in kinds :
        (FailsWith(o) /\ ppPc # "failed" /\ ppPc' = "failed"
                      /\ ppError'.endpoint # NoEndpoint) =>
            /\ ppError'.endpoint \in failedEps' \ failedEps
            /\ ppError'.msg = UnderlyingMessage(o)

\* C15: the error processPage fails with because of a CMS fetch names the
\* endpoint of the fetch that failed and carries the message of the
\* underlying error, whether an axios error or any other thrown error.
C15_FailureTagged == [][FailureTagged({"axios", "other"})]_vars

\* ------------------------------------------------------------------------
\* Properties of the refresh route (SpecRefresh)
\* ------------------------------------------------------------------------
\* C7: write-then-repoint. In every state latestContextUrl, once set, is the
\* url of a blob that is in the store and holds the complete serialized
\* FetchResult of the refresh that set the pointer; a PATCH is only in
\* flight when the blob of its request is stored; what a reader gets by
\* following the pointer is a complete serialized FetchResult.
C7_WriteThenRepoint ==
    /\ pointer # NoUrl =>
          /\ pointerBy \in Refreshes
          /\ pointer = BlobUrl(pointerBy)
          /\ pointer \in DOMAIN blobs
          /\ blobs[pointer] = Stringify(FetchResultAt(rfData[pointerBy]))
    /\ \A r \in Refreshes : rfPc[r] = "patching" => BlobUrl(r) \in DOMAIN blobs
    /\ rdPc = "hasUrl" => rdUrl \in DOMAIN blobs
    /\ rdCtx[1] \in {"none", "json"}

\* a reader got the context stored by a refresh that has repointed
W_C7 ==
    /\ pointer # NoUrl
    /\ rdCtx = blobs[pointer]
    /\ \E r \in Refreshes : rfStatus[r] = 200

AllRefreshed == \A r \in Refreshes : rfStatus[r] = 200

\* C8: after all refresh requests have completed successfully, the pointer
\* designates the blob of a refresh that read the newest content any of
\* them read.
C8_PointerIsLatest ==
    AllRefreshed =>
        \A r \in Refreshes : rfData[pointerBy] >= rfData[r]

\* ------------------------------------------------------------------------
\* Properties of the functions called on their own (SpecPure)
\* ------------------------------------------------------------------------
Alnum == LowerLetters \cup Digits

\* the maximal runs of characters of [a-z0-9] of s, in order
RECURSIVE AlnumRuns(_, _)
AlnumRuns(s, run) ==
    IF s = <<>> THEN (IF run = <<>> THEN <<>> ELSE <<run>>)
    ELSE IF Head(s) \in Alnum THEN AlnumRuns(Tail(s), Append(run, Head(s)))
    ELSE (IF run = <<>> THEN <<>> ELSE <<run>>) \o AlnumRuns(Tail(s), <<>>)

RECURSIVE JoinWith(_, _)
JoinWith(runs, sep) ==
    IF runs = <<>> THEN <<>>
    ELSE IF Len(runs) = 1 THEN runs[1]
    ELSE runs[1] \o <<sep>> \o JoinWith(Tail(runs), sep)

\* the slug function as specified: the runs of [a-z0-9] of the lowercased
\* title joined by single hyphens, after "/"; "/in" for "index"
SpecifiedSlug(title) ==
    IF ToLowerCase(title) = <<"i","n","d","e","x">> THEN <<"/","i","n">>
    ELSE <<"/">> \o JoinWith(AlnumRuns(ToLowerCase(title), <<>>), "-")

KeyOf(item) == ToLowerCase(Trim(item.name))

\* the last item of items whose lowercased trimmed name is k
LastNamed(items, k) ==
    items[CHOOSE i \in 1..Len(items) :
              /\ KeyOf(items[i]) = k
              /\ \A j \in (i + 1)..Len(items) : KeyOf(items[j]) # k]

\* C16: transformCaseStudies is last-write-wins on the lowercased trimmed
\* name: the output has exactly one entry per distinct lowercased trimmed
\* name, holding the title, the slug "/casestudies/" + slug and the content
\* of the last item of that name.
C16_LastWriteWins ==
    (pfFn = "transformCaseStudies" /\ pfN = 1) =>
        /\ DOMAIN pfOut = {KeyOf(pfIn[i]) : i \in 1..Len(pfIn)}
        /\ \A k \in DOMAIN pfOut :
              LET item == LastNamed(pfIn, k)
              IN  /\ pfOut[k].title = Trim(item.name)
                  /\ pfOut[k].slug = <<"/casestudies/">> \o item.slug
                  /\ pfOut[k].content =
                         sanitizeContent(turndown(OrEmpty(item.content)))

\* two items named "La" and " La " with different slugs and contents: one
\* entry under "la", holding the second item
W_C16 ==
    /\ pfFn = "transformCaseStudies"
    /\ pfN = 1
    /\ Len(pfIn) = 2
    /\ pfIn[1].name = <<"L","a">>
    /\ pfIn[2].name = <<" ","L","a"," ">>
    /\ pfIn[1].slug # pfIn[2].slug
    /\ pfIn[1].content = Str(<<"y">>)
    /\ pfIn[2].content = Undefined
    /\ DOMAIN pfOut = {<<"l","a">>}
    /\ pfOut[<<"l","a">>].content = <<>>

\* C17: transformSystemPrompt has no failure mode: for every item, one
\* without fieldData included, it returns two strings, the upstream value
\* of a field when it has one and the empty string otherwise.
C17_SystemPromptTotal ==
    (pfFn = "transformSystemPrompt" /\ pfN = 1) =>
        /\ ~pfOut.threw
        /\ pfOut.styleGuidelines =
               (IF pfIn.hasFieldData /\ pfIn.style.tag = "string"
                THEN pfIn.style ELSE Str(<<>>))
        /\ pfOut.questionPatterns =
               (IF pfIn.hasFieldData /\ pfIn.patterns.tag = "string"
                THEN pfIn.patterns ELSE Str(<<>>))

\* C20: the HTML normalization is idempotent: applied to its own result it
\* returns that result.
C20_NormalizeIdempotent ==
    (pfFn = "convertHtmlToMarkdown" /\ pfN = 2) => pfOut = pfPrev

\* a document with a script block, tags, a non-breaking space and repeated
\* whitespace was normalized twice
W_C20 ==
    /\ pfFn = "convertHtmlToMarkdown"
    /\ pfN = 2
    /\ Len(pfIn) = 21
    /\ pfPrev = <<"x", " ", "x">>
    /\ pfOut = <<"x", " ", "x">>

\* s has a parenthesized http(s) URL
HasUrl(s) ==
    \E i \in 1..Len(s) :
        /\ s[i] = "("
        /\ i + 2 <= Len(s)
        /\ s[i + 1] \in {"http://", "https://"}
        /\ s[i + 2] # ")"
        /\ FirstClose(s, i + 3) > 0

CleanContent(s) ==
    /\ \A i \in 1..(Len(s) - 1) :
          ~(s[i] \in Whitespace /\ s[i + 1] \in Whitespace)
    /\ s # <<>> => (s[1] \notin Whitespace /\ s[Len(s)] \notin Whitespace)
    /\ ~HasUrl(s)

\* C21: the standardization pass is idempotent, and its result has no run
\* of two or more whitespace characters, no leading or trailing whitespace
\* and no parenthesized http(s) URL.
C21_StandardizeIdempotent ==
    (pfFn = "standardizeContent" /\ pfN >= 1) =>
        /\ CleanContent(pfOut)
        /\ pfN = 2 => pfOut = pfPrev

\* ------------------------------------------------------------------------
\* Properties of the chat route (SpecRefresh, SpecChat)
\* ------------------------------------------------------------------------
\* C22: every step of the chat handler leaves the number of CMS queries, the
\* blob store and the pointer as they were; the url it holds is the pointer
\* as it stood when read, and the context it holds is the blob at that url.
C22_ChatReadsOnly ==
    [][rdPc' # rdPc =>
          /\ UNCHANGED <<cmsReads, blobs, pointer, pointerBy>>
          /\ (rdPc' = "hasUrl" => rdUrl' = pointer)
          /\ (rdPc' = "hasCtx" => rdCtx' = blobs[rdUrl])]_vars

\* a chat request was answered from the blob a refresh had stored
W_C22 ==
    /\ rdPc = "responded"
    /\ rdStatus = 200
    /\ cmsReads > 0
    /\ rdCtx = blobs[pointer]

\* the handler holds the context: the pointer was found and its blob read
ContextFetched ==
    /\ rdUrl # NoUrl
    /\ rdUrl \in DOMAIN blobs
    /\ rdCtx = blobs[rdUrl]

\* C27: the model is called only once the pointer was found and its blob
\* fetched; a request answered without the context is answered 500 without
\* a model call; a request has one response when answered and none before,
\* and every request is answered.
C27_ModelAfterContext ==
    /\ [](rdLlm > 0 => ContextFetched)
    /\ [](rdPc = "responded" /\ ~ContextFetched =>
              rdStatus = 500 /\ rdLlm = 0)
    /\ [](rdStatus = 200 => rdLlm > 0)
    /\ [](rdResponses = IF rdPc = "responded" THEN 1 ELSE 0)
    /\ [](rdPc = "responded" <=> rdStatus \in {200, 500})
    /\ (rdPc = "idle" ~> rdPc = "responded")

\* a request found no pointer and was answered 500 without a model call
W_C27 ==
    /\ rdPc = "responded"
    /\ rdStatus = 500
    /\ rdError = NoPointerMessage
    /\ rdUrl = NoUrl
    /\ pointer = NoUrl
    /\ rdLlm = 0
    /\ rdResponses = 1

\* ------------------------------------------------------------------------
\* Properties of the refresh route's responses (SpecRefresh)
\* ------------------------------------------------------------------------
\* C23: the pointer changes only in the step that answers a refresh request
\* with 200; a request answered 500 stays so, the pointer does not designate
\* its blob, and when its processPage failed it has uploaded no blob.
C23_FailureKeepsPointer ==
    /\ [][pointer' # pointer =>
             \E r \in Refreshes :
                 /\ rfStatus[r] = 0
                 /\ rfStatus'[r] = 200
                 /\ pointer' = BlobUrl(r)]_vars
    /\ [][\A r \in Refreshes :
             rfStatus[r] = 500 => rfStatus'[r] = 500 /\ rfPc'[r] = rfPc[r]]_vars
    /\ [](\A r \in Refreshes :
             rfStatus[r] = 500 =>
                 /\ pointer # BlobUrl(r)
                 /\ (rfSteps[r] = <<>> => BlobUrl(r) \notin DOMAIN blobs))

\* a refresh whose upsert was refused was answered 500 while the pointer
\* stays on the blob of another refresh
W_C23 ==
    \E r \in Refreshes :
        /\ rfStatus[r] = 500
        /\ hasToken
        /\ rfSteps[r] = <<"processPage", "put">>
        /\ pointer # NoUrl
        /\ pointerBy # r

AllSteps == <<"processPage", "put", "upsert">>

\* C24: a refresh request is answered 200 exactly when processPage, the
\* upload and the upsert succeeded in this order, and its body then has
\* success true and the url stored under the pointer in that step; every
\* other answer is 500 with success false.
C24_SuccessIffAllSteps ==
    /\ [](\A r \in Refreshes :
             /\ rfStatus[r] = 200 <=>
                    (rfPc[r] = "responded" /\ rfSteps[r] = AllSteps)
             /\ rfStatus[r] = 200 => rfBody[r] = Success(BlobUrl(r))
             /\ rfPc[r] = "responded" /\ rfSteps[r] # AllSteps =>
                    rfStatus[r] = 500 /\ rfBody[r] = Failure
             /\ rfPc[r] # "responded" =>
                    rfStatus[r] = 0 /\ rfBody[r] = NoBody)
    /\ [][\A r \in Refreshes :
             rfStatus[r] = 0 /\ rfStatus'[r] = 200 =>
                 pointer' = rfBody'[r].blobUrl]_vars

\* one refresh was answered 200 with the url the pointer holds, another 500
W_C24 ==
    \E r, q \in Refreshes :
        /\ rfStatus[r] = 200
        /\ rfBody[r] = Success(pointer)
        /\ rfStatus[q] = 500
        /\ rfBody[q] = Failure

\* ------------------------------------------------------------------------
\* Properties of the cache variants (SpecCache, SpecMemo)
\* ------------------------------------------------------------------------
\* an assembled result: pages, caseStudies and systemPrompt
IsContext(v) == DOMAIN v = {"pages", "caseStudies", "systemPrompt"}

\* C25: the cache key holds nothing or an assembled result, and a request
\* whose processPage had a failed CMS fetch is answered 500.
C25_OnlyContextsCached ==
    /\ ccStore # Absent => IsContext(ccStore)
    /\ \A r \in CacheRequests :
          ccFailed[r] /\ ccPc[r] = "responded" => ccStatus[r] = 500

\* C26: a fetchWebflowData call made after the last invalidation returns
\* data whose CMS requests were issued after that invalidation.
C26_InvalidationEffective ==
    \A c \in MemoCalls :
        wfPc[c] = "returned" /\ wfInvalidated > 0
                             /\ wfStarted[c] > wfInvalidated =>
            wfResult[c].issuedAt > wfInvalidated

C28_TopBeforeComponents ==
    /\ (\E c \in CompIds : fetchCount[c] > 0) =>
           \A k \in TopKeys : topData[k] = "ok"
    /\ (\E k \in TopKeys : topData[k] = "failed") =>
           /\ \A c \in CompIds : fetchCount[c] = 0
           /\ DOMAIN tasks = {}

\* component fetches are under way after the three top-level fetches
W_C28 ==
    /\ ppPc = "resolving"
    /\ \A k \in TopKeys : topData[k] = "ok"
    /\ \E c \in CompIds : fetchCount[c] > 0
    /\ \E t \in DOMAIN tasks : tasks[t].pc = "fetch"

\* the resolved node sequence of component c, computed from the definitions
\* alone: a tree per root of the definition, each instance with a componentId
\* carrying the resolved sequence of its own component
RECURSIVE ExpandNode(_, _, _)
ExpandNode(tpl, i, fuel) ==
    LET node == tpl.nodes[i]
    IN  [type |-> node.type, componentId |-> node.componentId,
         html |-> node.html, text |-> node.text,
         kids |-> IF fuel = 0 THEN <<>>
                  ELSE IF IsInstance(node)
                  THEN LET def == ComponentDefs[node.componentId]
                       IN  [j \in 1..Len(def.roots) |->
                               ExpandNode(def, def.roots[j], fuel - 1)]
                  ELSE [j \in 1..Len(node.children) |->
                           ExpandNode(tpl, node.children[j], fuel - 1)]]

ExpandDef(c, fuel) ==
    LET def == ComponentDefs[c]
    IN  [j \in 1..Len(def.roots) |-> ExpandNode(def, def.roots[j], fuel)]

\* the nodes of the document with no component instance at or below them
InstanceFree ==
    {n \in DocNodes : \A d \in Reach(heap, {n}, Len(heap)) :
                          ~IsInstance(heap[d])}

\* C29: when resolution has completed, every component-instance node of the
\* resulting tree, at any depth, has as children the resolved node sequence
\* of its component, the document is its tree with every instance expanded,
\* and a node with no instance at or below it is as it was fetched.
C29_ResolutionComplete ==
    ppPc = "done" =>
        /\ \A n \in DocInstances :
              ResolvedTree(heap, n, Len(heap)).kids =
                  ExpandDef(heap[n].componentId, Len(heap))
        /\ LET doc == Docs[scen.doc]
           IN  /\ Len(processed) = Len(doc.roots)
               /\ \A i \in 1..Len(processed) :
                     ResolvedTree(heap, processed[i], Len(heap)) =
                         ExpandNode(doc, doc.roots[i], Len(heap))
        /\ \A n \in InstanceFree :
              /\ heap[n].type = orig[n].type
              /\ heap[n].text = orig[n].text
              /\ heap[n].html = orig[n].html
              /\ heap[n].children = orig[n].children

\* a document with an instance under an ordinary node and an instance inside
\* a fetched definition was resolved
W_C29 ==
    /\ ppPc = "done"
    /\ scen.doc = "nested"
    /\ \E n \in DocInstances :
          /\ heap[n].componentId = "B"
          /\ n \notin {docRoots[i] : i \in 1..Len(docRoots)}
          /\ Len(heap[n].children) = 1

====
